---- MODULE Spec2Model ----
(***************************************************************************)
(* The in-memory OSM object graph of osm2go (osm_t) and its edit           *)
(* operations: attach, node_delete, way_delete, relation_delete,           *)
(* remove_from_relations, mergeNodes, mergeWays, way_t::split,             *)
(* way_t::reverse and updateTags, together with the tag lists (merge,      *)
(* comparison with a tag map), the object references, the stream parser    *)
(* of osm_t::parse and the save and restore of the diff of a project.      *)
(*                                                                         *)
(* Objects are identified by their id.  A pointer to an object is modelled *)
(* by the id of the object; a pointer to a freed object is an id that is   *)
(* no longer in the map.  std::map iteration is iteration in ascending id  *)
(* order.  A failed assert() ends the program: the action sets `aborted`   *)
(* and leaves the graph as it was.  Geographic positions and the map       *)
(* (rendering) collaborator are not part of the model.                     *)
(***************************************************************************)
EXTENDS Integers, Sequences, FiniteSets, TLC

VARIABLES nodes, ways, relations, original, assigned, aborted, last, steps

vars == <<nodes, ways, relations, original, assigned, aborted, last, steps>>

\* number of edit operations applied to the loaded graph; steps counts the operations
\* that are left
MaxOps == 2

\* the id that is never stored in a map
ID_ILLEGAL == 0

NoRole == "nullptr"
\* a null way pointer
NoWay == ID_ILLEGAL

NodeDeleteDefault == "NodeDeleteDefault"
NodeDeleteKeepRefs == "NodeDeleteKeepRefs"
NodeDeleteShortWays == "NodeDeleteShortWays"

OSM_FLAG_DIRTY == "Dirty"
OSM_FLAG_DELETED == "Deleted"

(***************************************************************************)
(* Generic helpers                                                         *)
(***************************************************************************)
Min(S) == CHOOSE x \in S : \A y \in S : x <= y

RECURSIVE SortedIds(_)
SortedIds(S) == IF S = {} THEN <<>> ELSE <<Min(S)>> \o SortedIds(S \ {Min(S)})

Drop(f, k) == [x \in DOMAIN f \ {k} |-> f[x]]

Put(f, k, v) == [x \in DOMAIN f \cup {k} |-> IF x = k THEN v ELSE f[x]]

RemoveAt(s, i) == SubSeq(s, 1, i - 1) \o SubSeq(s, i + 1, Len(s))

InsertAt(s, i, e) == SubSeq(s, 1, i - 1) \o <<e>> \o SubSeq(s, i, Len(s))

Reverse(s) == [i \in 1..Len(s) |-> s[Len(s) + 1 - i]]

Range(s) == {s[i] : i \in DOMAIN s}

Occurrences(s, e) == Cardinality({i \in DOMAIN s : s[i] = e})

(***************************************************************************)
(* Tags                                                                    *)
(***************************************************************************)
\* tolower() on the strings of the model
Lower(s) == CASE s = "Created_By" -> "created_by"
              [] s = "Name" -> "name"
              [] s = "Forward" -> "forward"
              [] s = "Route" -> "route"
              [] OTHER -> s

strcasecmp_eq(a, b) == Lower(a) = Lower(b)

is_discardable(tag) == strcasecmp_eq(tag.key, "created_by")

hasNonDiscardableTags(tags) == \E i \in DOMAIN tags : ~is_discardable(tags[i])

\* tag_match_functor(other, same_values)(tag)
tag_match(other, same_values, tag) ==
  /\ strcasecmp_eq(other.key, tag.key)
  /\ (strcasecmp_eq(other.value, tag.value) = same_values)

tag_list_contains(tags, other, same_values) ==
  \E i \in DOMAIN tags : tag_match(other, same_values, tags[i])

RECURSIVE tag_merge_loop(_, _, _, _)
tag_merge_loop(contents, other, i, conflict) ==
  IF i > Len(other) THEN [tags |-> contents, conflict |-> conflict]
  ELSE IF ~is_discardable(other[i]) /\ ~tag_list_contains(contents, other[i], TRUE)
       THEN tag_merge_loop(Append(contents, other[i]), other, i + 1,
                           IF ~conflict THEN tag_list_contains(contents, other[i], FALSE)
                                        ELSE conflict)
       ELSE tag_merge_loop(contents, other, i + 1, conflict)

\* tag_list_t::merge: the tags of this after the call and the conflict flag
tag_list_merge(mine, other) ==
  IF other = <<>> THEN [tags |-> mine, conflict |-> FALSE]
  ELSE IF mine = <<>> THEN [tags |-> other, conflict |-> FALSE]
  ELSE tag_merge_loop(mine, other, 1, FALSE)

\* tag_list_t::copy: all tags but the discardable ones
tag_list_copy(other) == SelectSeq(other, LAMBDA t : ~is_discardable(t))

\* std::count_if(tags, check_discardable_tag())
count_discardable(tags) == Len(SelectSeq(tags, is_discardable))

\* the loop of tag_list_t::operator!= looking for the key only
tag_list_loop_keys(contents, t2) ==
  \E i \in DOMAIN contents :
    /\ ~is_discardable(contents[i])
    /\ ~\E j \in DOMAIN t2 : contents[i].key = t2[j].key

\* tag_list_t::operator!=(const osm_t::TagMap &): the loop over the tags of the list
\* that are not discardable; TRUE when one of them has no equal in t2
tag_list_loop(contents, t2) ==
  \E i \in DOMAIN contents :
    /\ ~is_discardable(contents[i])
    /\ ~\E j \in DOMAIN t2 : contents[i].key = t2[j].key /\ contents[i].value = t2[j].value

\* tag_list_compare_base and tag_list_t::operator!=(const osm_t::TagMap &); a TagMap is
\* the sequence of its pairs in the order of the multimap
tag_list_ne(list, other) ==
  IF list = <<>> /\ other = <<>> THEN FALSE
  ELSE IF list = <<>> THEN Len(other) /= count_discardable(other)
  ELSE IF Len(other) - count_discardable(other) /= Len(list) - count_discardable(list) THEN TRUE
  ELSE tag_list_loop(list, other)

\* tag_list_t::replace(const osm_t::TagMap &)
tag_list_replace(ntags) == SelectSeq(ntags, LAMBDA t : ~is_discardable(t))

(***************************************************************************)
(* Object references and members                                           *)
(***************************************************************************)
BaseType(t) == CASE t = "NODE_ID" -> "NODE"
                 [] t = "WAY_ID" -> "WAY"
                 [] t = "RELATION_ID" -> "RELATION"
                 [] OTHER -> t

Obj(t, i) == [type |-> t, id |-> i]

is_real(t) == t \in {"NODE", "WAY", "RELATION"}

\* object_t::operator== asking for the identical type
object_eq_same_type(a, b) == a.type = b.type /\ (a.type = "ILLEGAL" \/ a.id = b.id)

\* object_t::operator==(const object_t &)
object_eq(a, b) ==
  IF BaseType(a.type) /= BaseType(b.type) THEN FALSE
  ELSE IF a.type = "ILLEGAL" THEN TRUE
  ELSE a.id = b.id

Member(t, i, r) == [type |-> t, id |-> i, role |-> r]

\* member_t::operator==(const member_t &)
member_eq(a, b) ==
  /\ object_eq(a, b)
  /\ ~((a.role = NoRole) /= (b.role = NoRole))
  /\ (a.role = NoRole \/ a.role = b.role)

(***************************************************************************)
(* Base object                                                             *)
(***************************************************************************)
isNew(id) == id < 0

mark_dirty(flags) == flags \cup {OSM_FLAG_DIRTY}

markDeleted(flags) == flags \cup {OSM_FLAG_DELETED}

isDeleted(o) == OSM_FLAG_DELETED \in o.flags

\* the graph the operations work on; ok is FALSE once an assertion failed
Graph(n, w, r) == [n |-> n, w |-> w, r |-> r, ok |-> TRUE]

Fail(G) == [G EXCEPT !.ok = FALSE]

\* attach giving every new object the id -1
attach_minus_one(map) == -1

\* attach numbering the new objects by the size of the map
attach_by_count(map) == 0 - (Cardinality(DOMAIN map) + 1)

\* osm_t::attach: the id given to a new object of the map
attach(map) ==
  IF DOMAIN map = {} THEN -1
  ELSE IF Min(DOMAIN map) >= 0 THEN -1 ELSE Min(DOMAIN map) - 1

\* a freshly constructed object before it is attached
new_node == [ways |-> 0, flags |-> {OSM_FLAG_DIRTY}, version |-> 0, tags |-> <<>>]

new_way == [chain |-> <<>>, flags |-> {OSM_FLAG_DIRTY}, version |-> 0, tags |-> <<>>]

new_relation == [members |-> <<>>, flags |-> {OSM_FLAG_DIRTY}, version |-> 0, tags |-> <<>>]

\* osm_unref_node without the decrement of the ways count
osm_unref_node_keeps_count(G, node) ==
  IF G.n[node].ways = 0 THEN Fail(G) ELSE G

\* static osm_unref_node(node_t *)
osm_unref_node(G, node) ==
  IF G.n[node].ways = 0 THEN Fail(G)
  ELSE [G EXCEPT !.n[node].ways = @ - 1]

RECURSIVE osm_node_chain_unref(_, _, _)
osm_node_chain_unref(G, chain, i) ==
  IF ~G.ok \/ i > Len(chain) THEN G
  ELSE osm_node_chain_unref(osm_unref_node(G, chain[i]), chain, i + 1)

\* osm_t::node_free
node_free(G, node) == [G EXCEPT !.n = Drop(@, node)]

\* osm_t::way_free: erase from the map, then way_t::cleanup
way_free(G, way) ==
  LET G1 == osm_node_chain_unref(G, G.w[way].chain, 1)
  IN  [G1 EXCEPT !.w = Drop(@, way)]

\* relation_free leaving the relation in the map
relation_free_keeps(G, rel) == G

\* osm_t::relation_free
relation_free(G, rel) == [G EXCEPT !.r = Drop(@, rel)]

\* way_t::ends_with_node; "assert" is the case the assertion fails
ends_with_node(G, way, node) ==
  IF isDeleted(G.w[way]) THEN "false"
  ELSE IF G.w[way].chain = <<>> THEN "assert"
  ELSE IF G.w[way].chain[1] = node \/ G.w[way].chain[Len(G.w[way].chain)] = node
       THEN "true" ELSE "false"

\* way_t::is_closed
is_closed(chain) == chain /= <<>> /\ chain[1] = chain[Len(chain)]

(***************************************************************************)
(* remove_from_relations                                                   *)
(***************************************************************************)
\* remove_member_functor erasing the first member found only
remove_members_first(members, obj) ==
  IF \E i \in DOMAIN members : object_eq(members[i], obj)
  THEN RemoveAt(members, Min({i \in DOMAIN members : object_eq(members[i], obj)}))
  ELSE members

\* the member list after the loop of remove_member_functor
remove_members(members, obj) == SelectSeq(members, LAMBDA m : ~object_eq(m, obj))

remove_member_functor(rel, obj) ==
  IF \E i \in DOMAIN rel.members : object_eq(rel.members[i], obj)
  THEN [rel EXCEPT !.flags = mark_dirty(@), !.members = remove_members(@, obj)]
  ELSE rel

remove_from_relations(G, obj) ==
  [G EXCEPT !.r = [id \in DOMAIN G.r |-> remove_member_functor(G.r[id], obj)]]

\* find_relation finding no relation for any object
in_any_relation_never(G, obj) == FALSE

\* find_relation(find_relation_members(obj)) != nullptr
in_any_relation(G, obj) ==
  \E id \in DOMAIN G.r : \E i \in DOMAIN G.r[id].members : object_eq(G.r[id].members[i], obj)

(***************************************************************************)
(* node_delete and way_delete                                              *)
(***************************************************************************)
\* node_chain_delete_functor erasing the first position of the node only
erase_node_first(chain, node) ==
  IF node \in Range(chain)
  THEN RemoveAt(chain, Min({i \in DOMAIN chain : chain[i] = node}))
  ELSE chain

\* the chain after the loop of node_chain_delete_functor
erase_node(chain, node) == SelectSeq(chain, LAMBDA x : x /= node)

\* node_chain_delete_functor on one way: the way afterwards
node_chain_delete_functor(way, node, check_only) ==
  IF node \in Range(way.chain)
  THEN [way EXCEPT !.flags = mark_dirty(@),
                   !.chain = IF check_only THEN @ ELSE erase_node(@, node)]
  ELSE way

\* the ways node_chain_delete_functor records: those containing the node, in map order
affected_ways(G, node) ==
  SelectSeq(SortedIds(DOMAIN G.w), LAMBDA w : node \in Range(G.w[w].chain))

\* node_deleted_from_ways: is the way deleted as well?
way_became_invalid(chain) == Len(chain) = 1

RECURSIVE node_delete(_, _, _)
RECURSIVE way_delete(_, _)
RECURSIVE osm_unref_way_free(_, _, _)
RECURSIVE node_deleted_from_ways(_, _, _)

\* for_each(chain, osm_unref_way_free(this, way))
osm_unref_way_free(G, chain, i) ==
  IF ~G.ok \/ i > Len(chain) THEN G
  ELSE LET node == chain[i]
       IN IF G.n[node].ways = 0 THEN Fail(G)
          ELSE LET G1 == [G EXCEPT !.n[node].ways = @ - 1]
                   G2 == IF /\ G1.n[node].ways = 0
                            /\ ~hasNonDiscardableTags(G1.n[node].tags)
                            /\ ~in_any_relation(G1, Obj("NODE", node))
                         THEN node_delete(G1, node, NodeDeleteKeepRefs)
                         ELSE G1
               IN osm_unref_way_free(G2, chain, i + 1)

way_delete(G, way) ==
  LET G1 == IF way /= ID_ILLEGAL THEN remove_from_relations(G, Obj("WAY", way)) ELSE G
      G2 == osm_unref_way_free(G1, G1.w[way].chain, 1)
      G3 == [G2 EXCEPT !.w[way].chain = <<>>]
  IN  IF ~isNew(way)
      THEN [G3 EXCEPT !.w[way].flags = markDeleted(@), !.w[way].tags = <<>>]
      ELSE way_free(G3, way)

\* for_each(way_chain, node_deleted_from_ways(map, this))
node_deleted_from_ways(G, way_chain, i) ==
  IF ~G.ok \/ i > Len(way_chain) THEN G
  ELSE node_deleted_from_ways(
         IF way_became_invalid(G.w[way_chain[i]].chain) THEN way_delete(G, way_chain[i]) ELSE G,
         way_chain, i + 1)

node_delete(G, node, flags) ==
  LET scanned == G.n[node].ways > 0
      way_chain == IF scanned THEN affected_ways(G, node) ELSE <<>>
      G1 == IF scanned
            THEN [G EXCEPT !.w = [w \in DOMAIN G.w |->
                     node_chain_delete_functor(G.w[w], node, flags = NodeDeleteKeepRefs)]]
            ELSE G
      G2 == IF flags /= NodeDeleteKeepRefs
            THEN remove_from_relations(G1, Obj("NODE", node)) ELSE G1
      G3 == IF ~isNew(node)
            THEN [G2 EXCEPT !.n[node].flags = markDeleted(@)]
            ELSE node_free(G2, node)
  IN  IF flags = NodeDeleteShortWays
      THEN node_deleted_from_ways(G3, way_chain, 1)
      ELSE G3

\* osm_t::relation_delete
relation_delete(G, rel) ==
  LET G1 == remove_from_relations(G, Obj("RELATION", rel))
  IN  IF ~isNew(rel)
      THEN [G1 EXCEPT !.r[rel].flags = markDeleted(@), !.r[rel].tags = <<>>,
                      !.r[rel].members = <<>>]
      ELSE relation_free(G1, rel)

(***************************************************************************)
(* checkObjectPersistence, mergeNodes, mergeWays                           *)
(***************************************************************************)
\* the relations relation_membership_functor collects for one object, in map order
relation_membership(G, obj) ==
  SelectSeq(SortedIds(DOMAIN G.r),
            LAMBDA id : \E i \in DOMAIN G.r[id].members : object_eq(G.r[id].members[i], obj))

\* what checkObjectPersistence reads of one of the two objects
persistence_attributes(G, obj) ==
  [id |-> obj.id,
   isNew |-> isNew(obj.id),
   rels |-> Len(relation_membership(G, obj)),
   size |-> IF obj.type = "NODE" THEN G.n[obj.id].ways ELSE Len(G.w[obj.id].chain),
   version |-> IF obj.type = "NODE" THEN G.n[obj.id].version ELSE G.w[obj.id].version]

\* the value of nret: TRUE when the second object is the one to keep
persistence_nret(keep, remove) ==
  \/ (keep.isNew /\ ~remove.isNew)
  \/ remove.rels > keep.rels
  \/ remove.size > keep.size
  \/ remove.version > keep.version
  \/ (remove.id > 0 /\ remove.id < keep.id)

\* checkObjectPersistence handing out the relations of the second object in every case
checkObjectPersistence_second_rels(G, first, second) ==
  [ret |-> ~persistence_nret(persistence_attributes(G, first), persistence_attributes(G, second)),
   rels |-> relation_membership(G, second)]

\* osm_t::checkObjectPersistence: the return value and the relations of the object to remove
checkObjectPersistence(G, first, second) ==
  LET nret == persistence_nret(persistence_attributes(G, first), persistence_attributes(G, second))
  IN  [ret |-> ~nret,
       rels |-> IF nret THEN relation_membership(G, first) ELSE relation_membership(G, second)]

\* the loop of relation_object_replacer over the members from position i on
RECURSIVE replacer_loop(_, _, _, _)
replacer_loop(members, i, old, replace) ==
  IF i > Len(members) THEN members
  ELSE IF ~object_eq(members[i], old) THEN replacer_loop(members, i + 1, old, replace)
  ELSE LET ms == [members EXCEPT ![i].type = replace.type, ![i].id = replace.id]
           dup == \/ (i > 1 /\ member_eq(ms[i - 1], ms[i]))
                  \/ (i < Len(ms) /\ member_eq(ms[i], ms[i + 1]))
       IN IF dup
          THEN replacer_loop(RemoveAt(ms, i), IF i > 1 THEN i ELSE 2, old, replace)
          ELSE replacer_loop(ms, i + 1, old, replace)

relation_object_replacer(rel, old, replace) ==
  IF \E i \in DOMAIN rel.members : object_eq(rel.members[i], old)
  THEN [rel EXCEPT !.flags = mark_dirty(@), !.members = replacer_loop(@, 1, old, replace)]
  ELSE rel

RECURSIVE replace_in_relations(_, _, _, _, _)
replace_in_relations(G, rels, i, old, replace) ==
  IF i > Len(rels) THEN G
  ELSE replace_in_relations([G EXCEPT !.r[rels[i]] = relation_object_replacer(@, old, replace)],
                            rels, i + 1, old, replace)

\* std::find_if(ways, find_way_ends(node)): the first way ending in node or NoWay;
\* ok is FALSE when the assertion of ends_with_node failed on the way
RECURSIVE find_way_ends(_, _, _, _)
find_way_ends(G, wids, i, node) ==
  IF i > Len(wids) THEN [way |-> NoWay, ok |-> TRUE]
  ELSE LET e == ends_with_node(G, wids[i], node)
       IN IF e = "assert" THEN [way |-> NoWay, ok |-> FALSE]
          ELSE IF e = "true" THEN [way |-> wids[i], ok |-> TRUE]
          ELSE find_way_ends(G, wids, i + 1, node)

\* the inner while loop of mergeNodes on the chain of one way, from position i on;
\* st holds keep->ways, remove->ways, mayMerge and mergeways
RECURSIVE merge_chain_loop(_, _, _, _, _, _)
merge_chain_loop(chain, i, way, keep, remove, st) ==
  IF st.rw = 0 \/ i > Len(chain) THEN [st EXCEPT !.chain = chain]
  ELSE IF chain[i] /= remove THEN merge_chain_loop(chain, i + 1, way, keep, remove, st)
  ELSE IF \/ (i > 1 /\ chain[i - 1] = keep)
          \/ (i < Len(chain) /\ chain[i + 1] = keep)
       THEN merge_chain_loop(RemoveAt(chain, i), i, way, keep, remove,
                             [st EXCEPT !.rw = @ - 1, !.found = TRUE])
       ELSE LET ends == chain[1] = remove \/ chain[Len(chain)] = remove
                st1 == IF st.mayMerge
                       THEN IF way /= st.mw0 /\ ends
                            THEN [st EXCEPT !.mw1 = way]
                            ELSE [st EXCEPT !.mw0 = NoWay, !.mayMerge = FALSE]
                       ELSE st
            IN merge_chain_loop([chain EXCEPT ![i] = keep], i + 1, way, keep, remove,
                                [st1 EXCEPT !.kw = @ + 1, !.rw = @ - 1, !.found = TRUE])

\* the loop of mergeNodes over the ways, in map order
RECURSIVE merge_ways_loop(_, _, _, _, _, _)
merge_ways_loop(G, wids, i, keep, remove, st) ==
  IF st.rw = 0 \/ i > Len(wids) THEN [g |-> G, st |-> st]
  ELSE LET way == wids[i]
           r == merge_chain_loop(G.w[way].chain, 1, way, keep, remove, [st EXCEPT !.found = FALSE])
           G1 == IF r.found
                 THEN [G EXCEPT !.w[way].chain = r.chain, !.w[way].flags = mark_dirty(@)]
                 ELSE G
       IN merge_ways_loop(G1, wids, i + 1, keep, remove, r)

\* mergeNodes, first part: the search for the way to merge and the loop over the ways
merge_rewire(G, keep, remove) ==
  LET mayMerge == G.n[keep].ways = 1 /\ G.n[remove].ways = 1
      fe == IF mayMerge THEN find_way_ends(G, SortedIds(DOMAIN G.w), 1, keep)
            ELSE [way |-> NoWay, ok |-> TRUE]
  IN  IF ~fe.ok THEN [g |-> Fail(G), st |-> [rw |-> 0, kw |-> 0, mw0 |-> NoWay, mw1 |-> NoWay]]
      ELSE merge_ways_loop(G, SortedIds(DOMAIN G.w), 1, keep, remove,
                           [chain |-> <<>>, found |-> FALSE,
                            kw |-> G.n[keep].ways, rw |-> G.n[remove].ways,
                            mayMerge |-> mayMerge /\ fe.way /= NoWay,
                            mw0 |-> fe.way, mw1 |-> NoWay])

\* mergeNodes, second part: relation memberships, tags and the deletion of the node
merge_finish(G, keep, remove, rels) ==
  LET tm == tag_list_merge(G.n[keep].tags, G.n[remove].tags)
  IN  [g |-> node_delete([replace_in_relations(G, rels, 1, Obj("NODE", remove), Obj("NODE", keep))
                            EXCEPT !.n[keep].tags = tm.tags, !.n[remove].tags = <<>>],
                         remove, NodeDeleteKeepRefs),
       conflict |-> tm.conflict]

\* mergeNodes once it is decided which node is kept
merge_nodes(G, keep, remove, rels) ==
  LET lp == merge_rewire([G EXCEPT !.n[keep].flags = mark_dirty(@),
                                   !.n[remove].flags = mark_dirty(@)], keep, remove)
  IN  IF ~lp.g.ok \/ lp.st.rw /= 0
      THEN [g |-> Fail(G), keep |-> keep, remove |-> remove,
            conflict |-> FALSE, mergeways |-> <<NoWay, NoWay>>]
      ELSE LET f == merge_finish([lp.g EXCEPT !.n[keep].ways = lp.st.kw,
                                              !.n[remove].ways = lp.st.rw],
                                 keep, remove, rels)
           IN [g |-> f.g, keep |-> keep, remove |-> remove,
               conflict |-> f.conflict, mergeways |-> <<lp.st.mw0, lp.st.mw1>>]

\* osm_t::mergeNodes
mergeNodes(G, first, second) ==
  LET cp == checkObjectPersistence(G, Obj("NODE", first), Obj("NODE", second))
  IN  IF cp.ret THEN merge_nodes(G, first, second, cp.rels)
                ELSE merge_nodes(G, second, first, cp.rels)

\* way_t::merge taking the nodes of other over in their own order in every case
merged_chain_as_is(mine, other) ==
  IF other[1] = mine[1] \/ other[Len(other)] = mine[1]
  THEN SubSeq(other, 1, Len(other) - 1) \o mine
  ELSE mine \o SubSeq(other, 2, Len(other))

\* the node chain of this way after way_t::merge took over the chain of other
merged_chain(mine, other) ==
  IF other[1] = mine[1]
  THEN Reverse(SubSeq(other, 2, Len(other))) \o mine
  ELSE IF other[Len(other)] = mine[1]
  THEN SubSeq(other, 1, Len(other) - 1) \o mine
  ELSE IF other[Len(other)] = mine[Len(mine)]
  THEN mine \o Reverse(SubSeq(other, 1, Len(other) - 1))
  ELSE mine \o SubSeq(other, 2, Len(other))

\* what is left in the chain of other after way_t::merge took over its nodes
merged_rest(mine, other) ==
  IF other[1] = mine[1] THEN <<other[1]>>
  ELSE IF other[Len(other)] = mine[1] THEN <<other[Len(other)]>>
  ELSE IF other[Len(other)] = mine[Len(mine)] THEN <<other[Len(other)]>>
  ELSE <<other[1]>>

\* way_t::merge
way_merge(G, this, other, rels) ==
  LET oc == G.w[other].chain
      e1 == ends_with_node(G, this, oc[1])
      e2 == ends_with_node(G, this, oc[Len(oc)])
  IN  IF e1 = "assert" \/ (e1 = "false" /\ e2 /= "true") THEN Fail(G)
      ELSE IF Len(oc) < 2 THEN way_free(G, other)
      ELSE way_free(replace_in_relations(
                      [G EXCEPT !.w[this].chain = merged_chain(@, oc),
                                !.w[this].flags = mark_dirty(@),
                                !.w[other].chain = merged_rest(G.w[this].chain, oc)],
                      rels, 1, Obj("WAY", other), Obj("WAY", this)),
                    other)

\* mergeWays once it is decided which way is kept: the tags go to the way kept
merge_ways(G, keep, remove, rels) ==
  LET tm == tag_list_merge(G.w[keep].tags, G.w[remove].tags)
  IN  [g |-> way_merge([G EXCEPT !.w[keep].tags = tm.tags, !.w[remove].tags = <<>>],
                       keep, remove, rels),
       keep |-> keep, remove |-> remove, conflict |-> tm.conflict]

\* osm_t::mergeWays
mergeWays(G, first, second) ==
  LET cp == checkObjectPersistence(G, Obj("WAY", first), Obj("WAY", second))
  IN  IF cp.ret THEN merge_ways(G, first, second, cp.rels)
                ELSE merge_ways(G, second, first, cp.rels)

(***************************************************************************)
(* way_t::split                                                            *)
(***************************************************************************)
\* std::rotate leaving the chain as it is
rotate_none(chain, cut) == chain

\* std::rotate(begin, cut_at, end) on the chain; cut is the 1-based position of cut_at
rotate(chain, cut) ==
  IF cut > Len(chain) THEN chain
  ELSE SubSeq(chain, cut, Len(chain)) \o SubSeq(chain, 1, cut - 1)

\* the two chains when the node at the cut is never kept in the old way
split_chains_unshared(chain, cut, cut_at_node) ==
  [old |-> SubSeq(chain, 1, cut - 1), new |-> SubSeq(chain, cut, Len(chain))]

\* the two chains an open way is cut into: the old way's and the new way's
split_chains(chain, cut, cut_at_node) ==
  [old |-> SubSeq(chain, 1, IF cut_at_node THEN cut ELSE cut - 1),
   new |-> SubSeq(chain, cut, Len(chain))]

\* insertBefore of relation_transfer for the member at position j; ub is what the read
\* of front()/back() of an empty chain of dst gives
insert_before(G, members, j, dst, src, ub) ==
  IF j > 1 /\ members[j - 1].type = "WAY"
  THEN LET prev == members[j - 1].id
           dc == G.w[dst].chain
       IN IF dc = <<>> THEN ub
          ELSE IF ends_with_node(G, prev, dc[1]) = "assert" THEN "assert"
          ELSE IF ends_with_node(G, prev, dc[1]) = "true" THEN "true"
          ELSE ends_with_node(G, prev, dc[Len(dc)])
  ELSE IF j < Len(members) /\ members[j + 1].type = "WAY"
  THEN LET next == members[j + 1].id
           sc == G.w[src].chain
       IN IF ends_with_node(G, next, sc[1]) = "assert" THEN "assert"
          ELSE IF ends_with_node(G, next, sc[1]) = "true" THEN "true"
          ELSE ends_with_node(G, next, sc[Len(sc)])
  ELSE "false"

\* the loop of relation_transfer over the members of one relation, from position i on
RECURSIVE relation_transfer_loop(_, _, _, _, _, _)
relation_transfer_loop(G, members, i, dst, src, ub) ==
  IF i > Len(members) THEN [members |-> members, ok |-> TRUE]
  ELSE IF ~object_eq(members[i], Obj("WAY", src))
       THEN relation_transfer_loop(G, members, i + 1, dst, src, ub)
  ELSE LET m == Member("WAY", dst, members[i].role)
           before == insert_before(G, members, i, dst, src, ub)
       IN IF before = "assert" THEN [members |-> members, ok |-> FALSE]
          ELSE relation_transfer_loop(G,
                 IF before = "true" THEN InsertAt(members, i, m) ELSE InsertAt(members, i + 1, m),
                 i + 2, dst, src, ub)

RECURSIVE relation_transfer(_, _, _, _, _, _)
relation_transfer(G, rids, i, dst, src, ub) ==
  IF ~G.ok \/ i > Len(rids) THEN G
  ELSE LET rel == G.r[rids[i]]
           t == relation_transfer_loop(G, rel.members, 1, dst, src, ub)
       IN IF ~t.ok THEN Fail(G)
          ELSE relation_transfer(
                 IF t.members /= rel.members
                 THEN [G EXCEPT !.r[rids[i]].members = t.members,
                                !.r[rids[i]].flags = mark_dirty(@)]
                 ELSE G,
                 rids, i + 1, dst, src, ub)

\* way_t::split; cut is the 1-based position of cut_at; new is the way returned or NoWay
split(G, way, cut, cut_at_node, ub) ==
  LET chain == G.w[way].chain
      G0 == [G EXCEPT !.w[way].flags = mark_dirty(@)]
  IN  IF Len(chain) <= 2 THEN [g |-> Fail(G), new |-> NoWay]
      ELSE IF is_closed(chain)
      THEN [g |-> [G0 EXCEPT !.n[chain[Len(chain)]].ways = @ - 1,
                             !.w[way].chain = rotate(SubSeq(chain, 1, Len(chain) - 1), cut)],
            new |-> NoWay]
      ELSE LET c == split_chains(chain, cut, cut_at_node)
               G1 == IF cut_at_node THEN [G0 EXCEPT !.n[chain[cut]].ways = @ + 1] ELSE G0
               G2 == [G1 EXCEPT !.w[way].chain = c.old]
               swap == Len(c.old) < Len(c.new)
               id == attach(G2.w)
               neww == [new_way EXCEPT !.chain = IF swap THEN c.old ELSE c.new,
                                       !.tags = tag_list_copy(G.w[way].tags)]
               G3 == [G2 EXCEPT !.w = Put(IF swap THEN [@ EXCEPT ![way].chain = c.new] ELSE @,
                                          id, neww)]
           IN IF Len(c.new) < 2
              THEN [g |-> osm_unref_node(G2, c.new[1]), new |-> NoWay]
              ELSE [g |-> relation_transfer(G3, SortedIds(DOMAIN G3.r), 1, id, way, ub),
                    new |-> id]

(***************************************************************************)
(* The loaded graph                                                        *)
(***************************************************************************)
\* osm_t::original: the copies of the objects as they were before their first change
NoOriginals == [n |-> <<>>, w |-> <<>>, r |-> <<>>]

\* the copies of one map after an operation: mark_dirty copies an object that is
\* not new when it sets its first flag, unmark_dirty drops the copy
retained_map(orig, pre, post) ==
  [id \in {i \in DOMAIN post : ~isNew(i) /\ post[i].flags /= {}} |->
     IF id \in DOMAIN orig THEN orig[id] ELSE pre[id]]

retained_originals(orig, pre, post) ==
  [n |-> retained_map(orig.n, pre.n, post.n),
   w |-> retained_map(orig.w, pre.w, post.w),
   r |-> retained_map(orig.r, pre.r, post.r)]

\* the ids osm_t::attach handed out in the operation l
attached_ids(l) ==
  IF l.op = "attach" THEN {<<l.type, l.id>>}
  ELSE IF l.op = "split" /\ l.new /= NoWay THEN {<<"WAY", l.new>>}
  ELSE {}

Cur == Graph(nodes, ways, relations)

LiveNodes == {n \in DOMAIN nodes : ~isDeleted(nodes[n])}
LiveWays == {w \in DOMAIN ways : ~isDeleted(ways[w])}
LiveRelations == {r \in DOMAIN relations : ~isDeleted(relations[r])}

RECURSIVE ChainOccurrences(_, _, _)
ChainOccurrences(w, ids, n) ==
  IF ids = {} THEN 0
  ELSE LET i == Min(ids)
       IN Occurrences(w[i].chain, n) + ChainOccurrences(w, ids \ {i}, n)

\* the node chains a loaded file may give way 1, way 2 and the new way -1
InitChains1 == {<<1, 2, 3>>, <<1, 2, 3, 1>>, <<1, 2, 1>>}
InitChains2 == {<<>>, <<1, 3>>, <<3, 2, -1>>}
InitChainsNew == {<<>>, <<-1, 3>>}

\* the member lists a loaded file may give relation 1
InitMembers ==
  { <<Member("NODE", 1, NoRole)>>,
    <<Member("WAY", 1, "forward"), Member("NODE", 1, NoRole), Member("WAY", 1, "forward")>>,
    <<Member("NODE", -1, "stop"), Member("NODE", 1, "stop"), Member("WAY", 2, NoRole)>>,
    <<Member("WAY", 2, NoRole), Member("WAY", 1, NoRole)>> }

InitWays(c1, c2, cn) ==
  [w \in {1} \cup (IF c2 = <<>> THEN {} ELSE {2}) \cup (IF cn = <<>> THEN {} ELSE {-1}) |->
     [chain |-> IF w = 1 THEN c1 ELSE IF w = 2 THEN c2 ELSE cn,
      flags |-> IF isNew(w) THEN {OSM_FLAG_DIRTY} ELSE {},
      version |-> IF isNew(w) THEN 0 ELSE 1,
      tags |-> IF w = 1 THEN <<[key |-> "created_by", value |-> "x"],
                               [key |-> "highway", value |-> "path"]>>
               ELSE <<>>]]

\* a member whose object is not in the file stays an id reference
resolve_member(w, m) ==
  IF m.type = "WAY" /\ m.id \notin DOMAIN w THEN [m EXCEPT !.type = "WAY_ID"] ELSE m

\* the graph after the load of a file and its diff, with a number of operations to apply
Loaded(c1, c2, cn, ms, budget) ==
    /\ ways = InitWays(c1, c2, cn)
    /\ nodes = [n \in {-1, 1, 2, 3} |->
                  [ways |-> ChainOccurrences(InitWays(c1, c2, cn), DOMAIN InitWays(c1, c2, cn), n),
                   flags |-> IF isNew(n) THEN {OSM_FLAG_DIRTY} ELSE {},
                   version |-> IF isNew(n) THEN 0 ELSE IF n = 2 THEN 2 ELSE 1,
                   tags |-> IF n = 3 THEN <<[key |-> "name", value |-> "a"]>> ELSE <<>>]]
    /\ relations = (1 :> [members |-> [i \in DOMAIN ms |-> resolve_member(InitWays(c1, c2, cn), ms[i])],
                          flags |-> {}, version |-> 1,
                          tags |-> <<[key |-> "type", value |-> "route"]>>]
                    @@ 2 :> [members |-> <<Member("RELATION", 1, NoRole)>>,
                             flags |-> {}, version |-> 1, tags |-> <<>>])
    /\ aborted = FALSE
    /\ last = [op |-> "load"]
    /\ original = NoOriginals
    /\ assigned = {}
    /\ steps = budget

Init ==
  \E c1 \in InitChains1, c2 \in InitChains2, cn \in InitChainsNew, ms \in InitMembers :
    Loaded(c1, c2, cn, ms, MaxOps)

(***************************************************************************)
(* Operations                                                              *)
(***************************************************************************)
\* the outcome of one operation: the new graph, or the abort of a failed assertion
Commit(G, l) ==
  /\ steps' = steps - 1
  /\ IF G.ok
     THEN /\ nodes' = G.n /\ ways' = G.w /\ relations' = G.r
          /\ original' = retained_originals(original, Cur, G)
          /\ assigned' = assigned \cup attached_ids(l)
          /\ aborted' = FALSE
          /\ last' = l
     ELSE /\ UNCHANGED <<nodes, ways, relations, original, assigned>>
          /\ aborted' = TRUE
          /\ last' = [op |-> "abort", of |-> l.op]

Ready == ~aborted /\ steps > 0

NodeAttach ==
  /\ Ready
  /\ LET id == attach(nodes)
     IN Commit([Cur EXCEPT !.n = Put(@, id, new_node)],
               [op |-> "attach", type |-> "NODE", id |-> id, reused |-> <<"NODE", id>> \in assigned])

WayAttach ==
  /\ Ready
  /\ LET id == attach(ways)
     IN Commit([Cur EXCEPT !.w = Put(@, id, new_way)],
               [op |-> "attach", type |-> "WAY", id |-> id, reused |-> <<"WAY", id>> \in assigned])

\* way_t::append_node
AppendNode(w, n) ==
  /\ Ready
  /\ w \in LiveWays /\ n \in LiveNodes
  /\ Commit([Cur EXCEPT !.w[w].chain = Append(@, n), !.n[n].ways = @ + 1],
            [op |-> "append_node", way |-> w, node |-> n])

NodeDelete(n, flags) ==
  /\ Ready
  /\ n \in LiveNodes
  /\ Commit(node_delete(Cur, n, flags),
            [op |-> "node_delete", node |-> n, flags |-> flags,
             containing |-> {w \in DOMAIN ways : n \in Range(ways[w].chain)}])

WayDelete(w) ==
  /\ Ready
  /\ w \in LiveWays
  /\ Commit(way_delete(Cur, w), [op |-> "way_delete", way |-> w])

RelationDelete(r) ==
  /\ Ready
  /\ r \in LiveRelations
  /\ Commit(relation_delete(Cur, r), [op |-> "relation_delete", relation |-> r])

RemoveFromRelations(obj) ==
  /\ Ready
  /\ \/ obj.type = "NODE" /\ obj.id \in LiveNodes
     \/ obj.type = "WAY" /\ obj.id \in LiveWays
     \/ obj.type = "RELATION" /\ obj.id \in LiveRelations
  /\ Commit(remove_from_relations(Cur, obj),
            [op |-> "remove_from_relations", obj |-> obj,
             before |-> [r \in DOMAIN relations |-> relations[r].members]])

MergeNodes(first, second) ==
  /\ Ready
  /\ first \in LiveNodes /\ second \in LiveNodes /\ first /= second
  /\ LET m == mergeNodes(Cur, first, second)
     IN Commit(m.g,
               [op |-> "mergeNodes", first |-> first, second |-> second,
                keep |-> m.keep, remove |-> m.remove, conflict |-> m.conflict,
                mergeways |-> m.mergeways,
                a |-> persistence_attributes(Cur, Obj("NODE", first)),
                b |-> persistence_attributes(Cur, Obj("NODE", second)),
                hadWays |-> {w \in DOMAIN ways : m.remove \in Range(ways[w].chain)},
                hadRels |-> Range(relation_membership(Cur, Obj("NODE", m.remove)))])

\* the ways handed to mergeWays end in a common node
MergeWays(first, second) ==
  /\ Ready
  /\ first \in LiveWays /\ second \in LiveWays /\ first /= second
  /\ ways[first].chain /= <<>> /\ ways[second].chain /= <<>>
  /\ LET m == mergeWays(Cur, first, second)
     IN Commit(m.g,
               [op |-> "mergeWays", first |-> first, second |-> second,
                keep |-> m.keep, remove |-> m.remove, conflict |-> m.conflict,
                a |-> persistence_attributes(Cur, Obj("WAY", first)),
                b |-> persistence_attributes(Cur, Obj("WAY", second))])

\* the outcomes of reading the ends of an empty node chain
UBOutcomes == {"false", "true", "assert"}

Split(w, cut, cut_at_node, ub) ==
  /\ Ready
  /\ w \in LiveWays
  /\ Len(ways[w].chain) > 2
  /\ cut \in 1..Len(ways[w].chain)
  /\ LET s == split(Cur, w, cut, cut_at_node, ub)
     IN Commit(s.g,
               [op |-> "split", way |-> w, cut |-> cut, cut_at_node |-> cut_at_node,
                closed |-> is_closed(ways[w].chain), len |-> Len(ways[w].chain),
                new |-> s.new])

RelationAttach ==
  /\ Ready
  /\ LET id == attach(relations)
     IN Commit([Cur EXCEPT !.r = Put(@, id, new_relation)],
               [op |-> "attach", type |-> "RELATION", id |-> id,
                reused |-> <<"RELATION", id>> \in assigned])

(***************************************************************************)
(* updateTags                                                              *)
(***************************************************************************)
\* the object a real reference points to
object_of(G, o) ==
  CASE o.type = "NODE" -> G.n[o.id]
    [] o.type = "WAY" -> G.w[o.id]
    [] o.type = "RELATION" -> G.r[o.id]

\* the graph with the object of the reference replaced
with_object(G, o, obj) ==
  CASE o.type = "NODE" -> [G EXCEPT !.n[o.id] = obj]
    [] o.type = "WAY" -> [G EXCEPT !.w[o.id] = obj]
    [] o.type = "RELATION" -> [G EXCEPT !.r[o.id] = obj]

\* osm_t::originalObject: the copy in a one-element sequence, <<>> for nullptr
originalObject(orig, o) ==
  LET map == CASE BaseType(o.type) = "NODE" -> orig.n
               [] BaseType(o.type) = "WAY" -> orig.w
               [] BaseType(o.type) = "RELATION" -> orig.r
  IN  IF o.id \in DOMAIN map THEN <<map[o.id]>> ELSE <<>>

\* the pairs of a tag list that are not discardable
real_tags(tags) == {<<tags[i].key, tags[i].value>> : i \in {j \in DOMAIN tags : ~is_discardable(tags[j])}}

\* operator== of two objects of one type: the tags, and the node chain or the members
same_object(type, a, b) ==
  /\ real_tags(a.tags) = real_tags(b.tags)
  /\ type = "WAY" => a.chain = b.chain
  /\ type = "RELATION" => a.members = b.members

unmark_dirty(flags) == flags \ {OSM_FLAG_DIRTY}

\* updateTags taking every object for one that has an original
updateTags_always_original(G, orig, o, ntags) ==
  LET obj == object_of(G, o)
  IN  IF ~tag_list_ne(obj.tags, ntags) THEN G
      ELSE with_object(G, o, [obj EXCEPT !.tags = tag_list_replace(ntags),
                                         !.flags = unmark_dirty(@)])

\* updateTags without the reset of an object that is as its original again
updateTags_replaced_no_reset(G, o, obj, origobj, ntags) ==
  IF tag_list_ne(obj.tags, ntags)
  THEN with_object(G, o, [obj EXCEPT !.flags = mark_dirty(@)])
  ELSE with_object(G, o, obj)

\* osm_t::updateTags after tags.replace(ntags) when the object has an original
updateTags_replaced(G, o, obj, origobj, ntags) ==
  IF same_object(o.type, obj, origobj)
  THEN with_object(G, o, [obj EXCEPT !.flags = unmark_dirty(@)])
  ELSE IF tag_list_ne(obj.tags, ntags)
       THEN with_object(G, o, [obj EXCEPT !.flags = mark_dirty(@)])
       ELSE with_object(G, o, obj)

\* osm_t::updateTags
updateTags(G, orig, o, ntags) ==
  LET obj == object_of(G, o)
      origobj == originalObject(orig, o)
  IN  IF ~tag_list_ne(obj.tags, ntags) THEN G
      ELSE IF origobj /= <<>>
           THEN updateTags_replaced(G, o, [obj EXCEPT !.tags = tag_list_replace(ntags)],
                                    origobj[1], ntags)
           ELSE with_object(G, o, [obj EXCEPT !.flags = IF tag_list_ne(obj.tags, ntags)
                                                         THEN mark_dirty(@) ELSE @,
                                              !.tags = tag_list_replace(ntags)])

\* the tag maps handed to updateTags
TagMaps ==
  { <<>>,
    <<[key |-> "highway", value |-> "path"]>>,
    <<[key |-> "highway", value |-> "road"]>>,
    <<[key |-> "created_by", value |-> "y"], [key |-> "highway", value |-> "path"]>>,
    <<[key |-> "name", value |-> "a"]>> }

UpdateTags(o, ntags) ==
  /\ Ready
  /\ \/ o.type = "NODE" /\ o.id \in LiveNodes
     \/ o.type = "WAY" /\ o.id \in LiveWays
     \/ o.type = "RELATION" /\ o.id \in LiveRelations
  /\ Commit(updateTags(Cur, original, o, ntags),
            [op |-> "updateTags", obj |-> o, ntags |-> ntags,
             before |-> object_of(Cur, o)])

Objects ==
  {Obj("NODE", n) : n \in DOMAIN nodes} \cup {Obj("WAY", w) : w \in DOMAIN ways}
    \cup {Obj("RELATION", r) : r \in DOMAIN relations}

MaxChainLen == 5

Next ==
  \/ NodeAttach
  \/ WayAttach
  \/ \E w \in DOMAIN ways, n \in DOMAIN nodes : AppendNode(w, n)
  \/ \E n \in DOMAIN nodes, f \in {NodeDeleteDefault, NodeDeleteShortWays} : NodeDelete(n, f)
  \/ \E w \in DOMAIN ways : WayDelete(w)
  \/ \E r \in DOMAIN relations : RelationDelete(r)
  \/ \E o \in Objects : RemoveFromRelations(o)
  \/ \E a \in DOMAIN nodes, b \in DOMAIN nodes : MergeNodes(a, b)
  \/ \E a \in DOMAIN ways, b \in DOMAIN ways : MergeWays(a, b)
  \/ \E w \in DOMAIN ways, cut \in 1..MaxChainLen, c \in BOOLEAN, ub \in UBOutcomes :
       Split(w, cut, c, ub)

Spec == Init /\ [][Next]_vars

(***************************************************************************)
(* Calls that break the preconditions of the graph                         *)
(***************************************************************************)
\* the ids of the objects handed to insert
InsertIds == {1, 4}

\* object_insert: G holds the object under its id; the assertion fails when the map
\* held the id before
object_insert(G, map, id) ==
  IF id \in DOMAIN map THEN Fail(G) ELSE G

\* osm_t::node_insert of a node with the given id and version 1
NodeInsert(id) ==
  /\ Ready
  /\ Commit(object_insert([Cur EXCEPT !.n = Put(@, id, [new_node EXCEPT !.version = 1, !.flags = {}])],
                          nodes, id),
            [op |-> "insert", type |-> "NODE", id |-> id, present |-> id \in DOMAIN nodes])

\* osm_t::way_insert of a way with the given id and version 1
WayInsert(id) ==
  /\ Ready
  /\ Commit(object_insert([Cur EXCEPT !.w = Put(@, id, [new_way EXCEPT !.version = 1, !.flags = {}])],
                          ways, id),
            [op |-> "insert", type |-> "WAY", id |-> id, present |-> id \in DOMAIN ways])

\* osm_t::attach of a node that is in the map already: its id is not ID_ILLEGAL
NodeAttachAgain(n) ==
  /\ Ready
  /\ n \in DOMAIN nodes
  /\ Commit(IF n /= ID_ILLEGAL THEN Fail(Cur) ELSE Cur,
            [op |-> "attach", type |-> "NODE", id |-> n, reused |-> <<"NODE", n>> \in assigned])

\* osm_t::node_delete(node, NodeDeleteKeepRefs) called on its own; the way chains keep
\* the pointer to the node, so the run is not followed beyond this call
NodeDeleteKeepRefsCall(n) ==
  /\ Ready
  /\ n \in LiveNodes
  /\ LET G == node_delete(Cur, n, NodeDeleteKeepRefs)
     IN /\ nodes' = G.n /\ ways' = G.w /\ relations' = G.r
        /\ original' = retained_originals(original, Cur, G)
        /\ UNCHANGED assigned
        /\ aborted' = ~G.ok
        /\ steps' = 0
        /\ last' = IF G.ok
                   THEN [op |-> "node_delete", node |-> n, flags |-> NodeDeleteKeepRefs,
                         containing |-> {w \in DOMAIN ways : n \in Range(ways[w].chain)}]
                   ELSE [op |-> "abort", of |-> "node_delete"]

NextMisuse ==
  \/ NodeAttach
  \/ WayAttach
  \/ \E w \in DOMAIN ways, n \in DOMAIN nodes : AppendNode(w, n)
  \/ \E n \in DOMAIN nodes, f \in {NodeDeleteDefault, NodeDeleteShortWays} : NodeDelete(n, f)
  \/ \E id \in InsertIds : NodeInsert(id)
  \/ \E id \in InsertIds : WayInsert(id)
  \/ \E n \in DOMAIN nodes : NodeAttachAgain(n)
  \/ \E n \in DOMAIN nodes : NodeDeleteKeepRefsCall(n)

SpecMisuse == Init /\ [][NextMisuse]_vars

(***************************************************************************)
(* An editing session on a graph built from scratch                        *)
(***************************************************************************)
\* number of operations of a session
MaxSessionOps == 4

\* osm_t::relation_insert of a relation with the given id and version 1
RelationInsert(id) ==
  /\ Ready
  /\ Commit(object_insert([Cur EXCEPT !.r = Put(@, id, [new_relation EXCEPT !.version = 1, !.flags = {}])],
                          relations, id),
            [op |-> "insert", type |-> "RELATION", id |-> id, present |-> id \in DOMAIN relations])

\* the graph of a new osm_t
InitSession ==
  /\ nodes = <<>> /\ ways = <<>> /\ relations = <<>>
  /\ original = NoOriginals
  /\ assigned = {}
  /\ aborted = FALSE
  /\ last = [op |-> "new"]
  /\ steps = MaxSessionOps

NextSession ==
  \/ NodeAttach
  \/ WayAttach
  \/ RelationAttach
  \/ \E id \in InsertIds \ DOMAIN nodes : NodeInsert(id)
  \/ \E id \in InsertIds \ DOMAIN ways : WayInsert(id)
  \/ \E id \in InsertIds \ DOMAIN relations : RelationInsert(id)
  \/ \E w \in DOMAIN ways, n \in DOMAIN nodes : AppendNode(w, n)
  \/ \E n \in DOMAIN nodes, f \in {NodeDeleteDefault, NodeDeleteShortWays} : NodeDelete(n, f)
  \/ \E w \in DOMAIN ways : WayDelete(w)
  \/ \E r \in DOMAIN relations : RelationDelete(r)
  \/ \E o \in Objects, t \in TagMaps : UpdateTags(o, t)

SpecSession == InitSession /\ [][NextSession]_vars

(***************************************************************************)
(* Sequences of updateTags on a loaded graph                               *)
(***************************************************************************)
\* number of updateTags calls
MaxTagOps == 3

InitTags ==
  \E ms \in InitMembers : Loaded(<<1, 2, 3>>, <<1, 3>>, <<-1, 3>>, ms, MaxTagOps)

SpecTags == InitTags /\ [][\E o \in Objects, t \in TagMaps : UpdateTags(o, t)]_vars

(***************************************************************************)
(* Tag lists: merge and the comparison with a tag map                      *)
(***************************************************************************)
\* number of tags of a tag list or tag map
MaxTags == 2

\* the tags of the lists, in the order of their keys in a TagMap
TagPool ==
  << [key |-> "Name", value |-> "a"],
     [key |-> "created_by", value |-> "x"],
     [key |-> "highway", value |-> "path"],
     [key |-> "highway", value |-> "road"],
     [key |-> "name", value |-> "a"] >>

\* the tag lists of an object: every key at most once
TagLists ==
  {[i \in 1..Len(ix) |-> TagPool[ix[i]]] :
     ix \in {s \in UNION {[1..n -> DOMAIN TagPool] : n \in 0..MaxTags} :
               \A i, j \in DOMAIN s : i /= j => TagPool[s[i]].key /= TagPool[s[j]].key}}

\* the tag maps: a multimap in the order of its keys, a key may repeat
TagMapInputs ==
  {[i \in 1..Len(ix) |-> TagPool[ix[i]]] :
     ix \in {s \in UNION {[1..n -> DOMAIN TagPool] : n \in 0..MaxTags} :
               \A i, j \in DOMAIN s : i < j => s[i] <= s[j]}}

\* no graph: the two tag collections are the input of the call to come
InitTagLists ==
  /\ nodes = <<>> /\ ways = <<>> /\ relations = <<>>
  /\ original = NoOriginals
  /\ assigned = {}
  /\ aborted = FALSE
  /\ \E a \in TagLists, b \in TagLists \cup TagMapInputs : last = [op |-> "tags", a |-> a, b |-> b]
  /\ steps = 1

\* a.merge(b) of two tag lists
TagListMerge ==
  /\ steps > 0 /\ last.op = "tags" /\ last.b \in TagLists
  /\ last' = [op |-> "tag_merge", a |-> last.a, b |-> last.b,
               result |-> tag_list_merge(last.a, last.b).tags,
               conflict |-> tag_list_merge(last.a, last.b).conflict]
  /\ steps' = steps - 1
  /\ UNCHANGED <<nodes, ways, relations, original, assigned, aborted>>

\* a == b of a tag list and a tag map
TagListCompare ==
  /\ steps > 0 /\ last.op = "tags" /\ last.b \in TagMapInputs
  /\ last' = [op |-> "tag_compare", a |-> last.a, b |-> last.b,
               equal |-> ~tag_list_ne(last.a, last.b)]
  /\ steps' = steps - 1
  /\ UNCHANGED <<nodes, ways, relations, original, assigned, aborted>>

NextTagLists == TagListMerge \/ TagListCompare

SpecTagLists == InitTagLists /\ [][NextTagLists]_vars

(***************************************************************************)
(* Object references: comparison, and the members read from a file         *)
(***************************************************************************)
\* the object references: real ones, id references and the default object_t()
Refs ==
  {Obj(t, i) : t \in {"NODE", "WAY", "RELATION", "NODE_ID", "WAY_ID", "RELATION_ID"}, i \in {-1, 1, 5}}
    \cup {Obj("ILLEGAL", ID_ILLEGAL)}

\* the values of an attribute of a member element; nullptr is the missing attribute
MemberAttributes ==
  [tp |-> {"node", "way", "relation", "area", "nullptr"},
   ref |-> {"1", "5", "-1", "5x", "", "nullptr"},
   role |-> {"forward", "", "nullptr"}]

\* strtoll(ref, &endp, 10): the value read and whether the text ended there
strtoll(ref) ==
  CASE ref = "1" -> [value |-> 1, end |-> TRUE]
    [] ref = "5" -> [value |-> 5, end |-> TRUE]
    [] ref = "-1" -> [value |-> -1, end |-> TRUE]
    [] ref = "5x" -> [value |-> 5, end |-> FALSE]
    [] ref = "" -> [value |-> 0, end |-> TRUE]

\* parse_relation_member storing a real reference for every member
parse_relation_member_real(G, tp, ref, role) ==
  IF tp \notin {"node", "way", "relation"} \/ ref = "nullptr" \/ ~strtoll(ref).end
  THEN [ok |-> FALSE, member |-> Member("ILLEGAL", ID_ILLEGAL, NoRole)]
  ELSE [ok |-> TRUE,
        member |-> Member(CASE tp = "way" -> "WAY" [] tp = "node" -> "NODE" [] tp = "relation" -> "RELATION",
                          strtoll(ref).value,
                          IF role /= "nullptr" /\ role /= "" THEN role ELSE NoRole)]

\* osm_t::parse_relation_member(tp, ref, role, members): the return value and the
\* member pushed to members
parse_relation_member(G, tp, ref, role) ==
  IF tp = "nullptr" \/ ref = "nullptr" THEN [ok |-> FALSE, member |-> Member("ILLEGAL", ID_ILLEGAL, NoRole)]
  ELSE IF tp \notin {"way", "node", "relation"} \/ ~strtoll(ref).end
       THEN [ok |-> FALSE, member |-> Member("ILLEGAL", ID_ILLEGAL, NoRole)]
  ELSE LET type == CASE tp = "way" -> "WAY" [] tp = "node" -> "NODE" [] tp = "relation" -> "RELATION"
           id == strtoll(ref).value
           found == CASE type = "WAY" -> id \in DOMAIN G.w
                      [] type = "NODE" -> id \in DOMAIN G.n
                      [] type = "RELATION" -> id \in DOMAIN G.r
       IN [ok |-> TRUE,
           member |-> Member(IF found THEN type
                             ELSE CASE type = "WAY" -> "WAY_ID" [] type = "NODE" -> "NODE_ID"
                                    [] type = "RELATION" -> "RELATION_ID",
                             id,
                             IF role /= "nullptr" /\ role /= "" THEN role ELSE NoRole)]

\* a graph read so far, holding the objects with id 1 of some of the types, and two
\* references to compare
InitRefs ==
  /\ \E present \in SUBSET {"NODE", "WAY", "RELATION"} :
        /\ nodes = IF "NODE" \in present THEN 1 :> [new_node EXCEPT !.version = 1, !.flags = {}] ELSE <<>>
        /\ ways = IF "WAY" \in present THEN 1 :> [new_way EXCEPT !.version = 1, !.flags = {}] ELSE <<>>
        /\ relations = IF "RELATION" \in present
                       THEN 1 :> [new_relation EXCEPT !.version = 1, !.flags = {}] ELSE <<>>
  /\ original = NoOriginals
  /\ assigned = {}
  /\ aborted = FALSE
  /\ \E a \in Refs, b \in Refs : last = [op |-> "refs", a |-> a, b |-> b]
  /\ steps = 1

\* a == b of two object references
ObjectCompare ==
  /\ steps > 0
  /\ last' = [op |-> "object_compare", a |-> last.a, b |-> last.b, equal |-> object_eq(last.a, last.b)]
  /\ steps' = steps - 1
  /\ UNCHANGED <<nodes, ways, relations, original, assigned, aborted>>

\* one member element of a relation is read
ParseRelationMember(tp, ref, role) ==
  /\ steps > 0
  /\ last' = [op |-> "parse_relation_member", tp |-> tp, ref |-> ref, role |-> role,
               ok |-> parse_relation_member(Cur, tp, ref, role).ok,
               member |-> parse_relation_member(Cur, tp, ref, role).member]
  /\ steps' = steps - 1
  /\ UNCHANGED <<nodes, ways, relations, original, assigned, aborted>>

NextRefs ==
  \/ ObjectCompare
  \/ \E tp \in MemberAttributes.tp, ref \in MemberAttributes.ref, role \in MemberAttributes.role :
       ParseRelationMember(tp, ref, role)

SpecRefs == InitRefs /\ [][NextRefs]_vars

(***************************************************************************)
(* way_t::reverse                                                          *)
(***************************************************************************)
\* the value of no tag
NoValue == "nullptr"

\* tag_list_t::get_value: the value of the first tag with the key, case ignored
get_value(tags, key) ==
  IF \E i \in DOMAIN tags : strcasecmp_eq(key, tags[i].key)
  THEN tags[Min({i \in DOMAIN tags : strcasecmp_eq(key, tags[i].key)})].value
  ELSE NoValue

\* strrchr(key, ':') looking from position i down: the position of the last colon, 0
\* when there is none
RECURSIVE strrchr_colon(_, _)
strrchr_colon(key, i) ==
  IF i = 0 THEN 0
  ELSE IF SubSeq(key, i, i) = ":" THEN i
  ELSE strrchr_colon(key, i - 1)

\* the suffix branch with a table that has no entries for right and backward
reverse_suffix_one_direction(key) ==
  LET rtable == <<[first |-> "left", second |-> "right"],
                  [first |-> "forward", second |-> "backward"]>>
      lastcolon == strrchr_colon(key, Len(key))
      hits == {i \in DOMAIN rtable : rtable[i].first = SubSeq(key, lastcolon + 1, Len(key))}
  IN  IF lastcolon = 0 \/ hits = {} THEN key
      ELSE SubSeq(key, 1, lastcolon) \o rtable[Min(hits)].second

\* the suffix branch of the functor: the key with its suffix replaced by the second of
\* the first entry of rtable whose first is the text after the last colon
reverse_suffix(key) ==
  LET rtable == <<[first |-> "left", second |-> "right"],
                  [first |-> "right", second |-> "left"],
                  [first |-> "forward", second |-> "backward"],
                  [first |-> "backward", second |-> "forward"]>>
      lastcolon == strrchr_colon(key, Len(key))
      hits == {i \in DOMAIN rtable : rtable[i].first = SubSeq(key, lastcolon + 1, Len(key))}
  IN  IF lastcolon = 0 \/ hits = {} THEN key
      ELSE SubSeq(key, 1, lastcolon) \o rtable[Min(hits)].second

\* the functor that never flips oneway=-1 back
reverse_tag_one_direction(etag) ==
  IF etag.key = "oneway"
  THEN IF strcasecmp_eq(etag.value, "yes") \/ strcasecmp_eq("true", etag.value) \/ etag.value = "1"
       THEN [key |-> "oneway", value |-> "-1"]
       ELSE etag
  ELSE IF etag.key = "sidewalk"
  THEN IF strcasecmp_eq(etag.value, "right") THEN [key |-> "sidewalk", value |-> "left"]
       ELSE IF strcasecmp_eq(etag.value, "left") THEN [key |-> "sidewalk", value |-> "right"]
       ELSE etag
  ELSE [etag EXCEPT !.key = reverse_suffix(etag.key)]

\* reverse_direction_sensitive_tags_functor::operator(): the tag after the call;
\* n_tags_altered goes up exactly when the tag is assigned
reverse_direction_sensitive_tags_functor(etag) ==
  IF etag.key = "oneway"
  THEN IF strcasecmp_eq(etag.value, "yes") \/ strcasecmp_eq("true", etag.value) \/ etag.value = "1"
       THEN [key |-> "oneway", value |-> "-1"]
       ELSE IF etag.value = "-1" THEN [key |-> "oneway", value |-> "yes"]
       ELSE etag
  ELSE IF etag.key = "sidewalk"
  THEN IF strcasecmp_eq(etag.value, "right") THEN [key |-> "sidewalk", value |-> "left"]
       ELSE IF strcasecmp_eq(etag.value, "left") THEN [key |-> "sidewalk", value |-> "right"]
       ELSE etag
  ELSE [etag EXCEPT !.key = reverse_suffix(etag.key)]

\* reverse_roles::operator(): the relation after the call; std::find gives the first
\* member that is the way, and only its role is looked at
reverse_roles(relation, way) ==
  IF get_value(relation.tags, "type") = NoValue
     \/ ~strcasecmp_eq(get_value(relation.tags, "type"), "route")
  THEN relation
  ELSE LET found == {i \in DOMAIN relation.members : object_eq(relation.members[i], way)}
           member == IF found = {} THEN 0 ELSE Min(found)
           flipped_role(role) ==
             IF role = NoRole THEN role
             ELSE IF strcasecmp_eq(role, "forward") THEN "backward"
             ELSE IF strcasecmp_eq(role, "backward") THEN "forward"
             ELSE role
           members == [i \in DOMAIN relation.members |->
                         IF i = member
                         THEN [relation.members[i] EXCEPT !.role = flipped_role(@)]
                         ELSE relation.members[i]]
       IN  [relation EXCEPT !.members = members,
                            !.flags = IF members /= relation.members THEN mark_dirty(@) ELSE @]

\* way_t::reverse: the graph after the call and the two counts
way_reverse(G, w) ==
  LET tags == [i \in DOMAIN G.w[w].tags |-> reverse_direction_sensitive_tags_functor(G.w[w].tags[i])]
      r == [id \in DOMAIN G.r |-> reverse_roles(G.r[id], Obj("WAY", w))]
  IN  [g |-> [G EXCEPT !.w[w].flags = mark_dirty(@),
                       !.w[w].tags = tags,
                       !.w[w].chain = Reverse(@),
                       !.r = r],
       tags_flipped |-> Cardinality({i \in DOMAIN tags : tags[i] /= G.w[w].tags[i]}),
       roles_flipped |-> Cardinality({id \in DOMAIN r : r[id].members /= G.r[id].members})]

\* the number of reverse calls of a run
MaxReverseOps == 2

\* the direction sensitive tags, and some others, a loaded way may have
ReverseTagPool ==
  {[key |-> "oneway", value |-> v] : v \in {"yes", "-1", "true", "1", "no"}}
    \cup {[key |-> "sidewalk", value |-> v] : v \in {"left", "right", "both"}}
    \cup {[key |-> k, value |-> "2"] :
            k \in {"cycleway:left", "cycleway:right", "lanes:forward", "lanes:backward",
                   "lanes:bus:forward", "addr:street", "name"}}

\* a loaded graph of two ways and two relations: the tags of way 1, and the members
\* and the tags of relation 1, are those of the file
InitReverse ==
  \E tags \in {<<>>} \cup {<<t>> : t \in ReverseTagPool}
                     \cup {p \in ReverseTagPool \X ReverseTagPool : p[1].key /= p[2].key},
     ms \in { <<Member("WAY", 1, r)>> : r \in {"forward", "backward", "Forward", "stop", NoRole} }
              \cup { <<Member("WAY", 1, "forward"), Member("WAY", 1, "forward")>>,
                     <<Member("WAY", 1, NoRole), Member("WAY", 1, "backward")>>,
                     <<Member("NODE", 1, "forward"), Member("WAY", 1, "backward"),
                       Member("WAY", 2, "forward")>> },
     rtags \in { <<[key |-> "type", value |-> "route"]>>,
                 <<[key |-> "name", value |-> "a"], [key |-> "type", value |-> "Route"]>>,
                 <<[key |-> "type", value |-> "multipolygon"]>>,
                 <<>> } :
    /\ ways = (1 :> [chain |-> <<1, 2, 3>>, flags |-> {}, version |-> 1, tags |-> tags]
               @@ 2 :> [chain |-> <<3, 2>>, flags |-> {}, version |-> 1,
                        tags |-> <<[key |-> "oneway", value |-> "yes"]>>])
    /\ nodes = [n \in {1, 2, 3} |->
                  [ways |-> IF n = 1 THEN 1 ELSE 2, flags |-> {}, version |-> 1, tags |-> <<>>]]
    /\ relations = (1 :> [members |-> ms, flags |-> {}, version |-> 1, tags |-> rtags]
                    @@ 2 :> [members |-> <<Member("WAY", 2, "backward"), Member("WAY", 1, "forward")>>,
                             flags |-> {}, version |-> 1,
                             tags |-> <<[key |-> "type", value |-> "route"]>>])
    /\ aborted = FALSE
    /\ last = [op |-> "load"]
    /\ original = NoOriginals
    /\ assigned = {}
    /\ steps = MaxReverseOps

\* way->reverse(osm, tags_flipped, roles_flipped)
WayReverse(w) ==
  /\ Ready
  /\ w \in LiveWays
  /\ Commit(way_reverse(Cur, w).g,
            [op |-> "reverse", way |-> w,
             tags_flipped |-> way_reverse(Cur, w).tags_flipped,
             roles_flipped |-> way_reverse(Cur, w).roles_flipped,
             before |-> [tags |-> ways[w].tags, chain |-> ways[w].chain,
                         members |-> [r \in DOMAIN relations |-> relations[r].members]],
             prev |-> last])

SpecReverse == InitReverse /\ [][\E w \in {1, 2} : WayReverse(w)]_vars

(***************************************************************************)
(* osm_t::parse: the stream parser                                         *)
(***************************************************************************)
\* enum blocks of process_osm
blocks == [BLOCK_OSM |-> 0, BLOCK_BOUNDS |-> 1, BLOCK_NODES |-> 2, BLOCK_WAYS |-> 3,
           BLOCK_RELATIONS |-> 4]

\* process_node: the node is put into the map under the id of the element
process_node(G, e) ==
  IF e.id \in DOMAIN G.n THEN Fail(G)
  ELSE [G EXCEPT !.n = Put(@, e.id, [new_node EXCEPT !.version = 1, !.flags = {}])]

\* process_way and process_nd: the nd elements whose node is in the map make the node
\* chain, and each of them counts in the ways count of its node
process_way(G, e) ==
  IF e.id \in DOMAIN G.w THEN Fail(G)
  ELSE LET refs == [i \in DOMAIN e.nds |-> strtoll(e.nds[i]).value]
           chain == SelectSeq(refs, LAMBDA id : id \in DOMAIN G.n)
       IN  [G EXCEPT !.w = Put(@, e.id, [new_way EXCEPT !.version = 1, !.flags = {}, !.chain = chain]),
                     !.n = [x \in DOMAIN G.n |-> [G.n[x] EXCEPT !.ways = @ + Occurrences(chain, x)]]]

\* process_relation and process_member: the relation is in the map when its members
\* are read, and the member elements that parse_relation_member takes make its members
process_relation(G, e) ==
  IF e.id \in DOMAIN G.r THEN Fail(G)
  ELSE LET g == [G EXCEPT !.r = Put(@, e.id, [new_relation EXCEPT !.version = 1, !.flags = {}])]
           read == [i \in DOMAIN e.members |->
                      parse_relation_member(g, e.members[i].tp, e.members[i].ref, e.members[i].role)]
           taken == SelectSeq(read, LAMBDA p : p.ok)
       IN  [g EXCEPT !.r[e.id].members = [i \in DOMAIN taken |-> taken[i].member]]

\* the element branch of process_osm when the block is never looked at
process_element_any_block(G, block, e) ==
  IF e.name = "bounds" THEN [g |-> G, block |-> blocks.BLOCK_BOUNDS]
  ELSE IF e.name = "node" THEN [g |-> process_node(G, e), block |-> blocks.BLOCK_NODES]
  ELSE IF e.name = "way" THEN [g |-> process_way(G, e), block |-> blocks.BLOCK_WAYS]
  ELSE IF e.name = "relation" THEN [g |-> process_relation(G, e), block |-> blocks.BLOCK_RELATIONS]
  ELSE [g |-> Fail(G), block |-> block]

\* the XML_READER_TYPE_ELEMENT branch of process_osm: the graph and the block after
\* the element; g_assert_not_reached() is the failed assertion
process_element(G, block, e) ==
  IF block <= blocks.BLOCK_BOUNDS /\ e.name = "bounds"
  THEN [g |-> G, block |-> blocks.BLOCK_BOUNDS]
  ELSE IF block <= blocks.BLOCK_NODES /\ e.name = "node"
  THEN [g |-> process_node(G, e), block |-> blocks.BLOCK_NODES]
  ELSE IF block <= blocks.BLOCK_WAYS /\ e.name = "way"
  THEN [g |-> process_way(G, e), block |-> blocks.BLOCK_WAYS]
  ELSE IF block <= blocks.BLOCK_RELATIONS /\ e.name = "relation"
  THEN [g |-> process_relation(G, e), block |-> blocks.BLOCK_RELATIONS]
  ELSE [g |-> Fail(G), block |-> block]

\* no member is looked at after the file is read
relation_ref_functor_none(G) == G

\* relation_ref_functor over all relations: the id references to relations that are in
\* the map become real references
relation_ref_functor(G) ==
  [G EXCEPT !.r = [id \in DOMAIN G.r |->
     [G.r[id] EXCEPT !.members = [i \in DOMAIN G.r[id].members |->
        IF G.r[id].members[i].type = "RELATION_ID" /\ G.r[id].members[i].id \in DOMAIN G.r
        THEN [G.r[id].members[i] EXCEPT !.type = "RELATION"]
        ELSE G.r[id].members[i]]]]]

\* the number of elements of a file
MaxElements == 4

\* the elements below the osm element of a file
Elements ==
  LET E(name, id, nds, members) == [name |-> name, id |-> id, nds |-> nds, members |-> members]
      M(tp, ref) == [tp |-> tp, ref |-> ref, role |-> "nullptr"]
  IN  {E("bounds", 0, <<>>, <<>>), E("changeset", 0, <<>>, <<>>)}
        \cup {E("node", id, <<>>, <<>>) : id \in {1, 5}}
        \cup {E("way", id, nds, <<>>) : id \in {1, 5}, nds \in {<<"1", "5">>, <<"5", "1", "5">>}}
        \cup {E("relation", id, <<>>, ms) : id \in {1, 5},
                ms \in {<<M("relation", "5")>>, <<M("relation", "1")>>,
                        <<M("node", "1"), M("way", "5")>>, <<M("way", "1"), M("relation", "5x")>>}}

\* process_osm has created the osm structure and read no element yet
InitParse ==
  /\ nodes = <<>> /\ ways = <<>> /\ relations = <<>>
  /\ original = NoOriginals
  /\ assigned = {}
  /\ aborted = FALSE
  /\ last = [op |-> "process_osm", block |-> blocks.BLOCK_OSM, read |-> <<>>]
  /\ steps = MaxElements

\* one turn of the loop of process_osm on an element
ProcessElement(e) ==
  /\ Ready
  /\ last.op = "process_osm"
  /\ steps' = steps - 1
  /\ UNCHANGED <<original, assigned>>
  /\ IF process_element(Cur, last.block, e).g.ok
     THEN /\ nodes' = process_element(Cur, last.block, e).g.n
          /\ ways' = process_element(Cur, last.block, e).g.w
          /\ relations' = process_element(Cur, last.block, e).g.r
          /\ aborted' = FALSE
          /\ last' = [op |-> "process_osm", block |-> process_element(Cur, last.block, e).block,
                      read |-> Append(last.read, [name |-> e.name, id |-> e.id])]
     ELSE /\ UNCHANGED <<nodes, ways, relations>>
          /\ aborted' = TRUE
          /\ last' = [op |-> "abort", of |-> "process_osm", block |-> last.block, name |-> e.name]

\* the end element of osm: process_osm returns the graph, process_file runs
\* relation_ref_functor on it and returns it to the caller of osm_t::parse
ProcessFileEnd ==
  /\ ~aborted
  /\ last.op = "process_osm"
  /\ nodes' = relation_ref_functor(Cur).n
  /\ ways' = relation_ref_functor(Cur).w
  /\ relations' = relation_ref_functor(Cur).r
  /\ last' = [op |-> "parse", read |-> last.read]
  /\ UNCHANGED <<original, assigned, aborted, steps>>

SpecParse == InitParse /\ [][(\E e \in Elements : ProcessElement(e)) \/ ProcessFileEnd]_vars

(***************************************************************************)
(* The diff of a project: diff_save, osm_t::parse and diff_restore_file    *)
(***************************************************************************)
\* the graph osm_t::parse returns for the file of the project
BaseGraph ==
  LET E(name, id, nds, members) == [name |-> name, id |-> id, nds |-> nds, members |-> members]
      M(tp, ref, role) == [tp |-> tp, ref |-> ref, role |-> role]
      g1 == process_node(process_node(Graph(<<>>, <<>>, <<>>), E("node", 1, <<>>, <<>>)),
                         E("node", 5, <<>>, <<>>))
      g2 == process_way([g1 EXCEPT !.n[5].tags = <<[key |-> "name", value |-> "a"]>>],
                        E("way", 1, <<"1", "5">>, <<>>))
      g3 == process_relation([g2 EXCEPT !.w[1].tags = <<[key |-> "highway", value |-> "path"]>>],
                             E("relation", 1, <<>>, <<M("node", "1", "stop"), M("relation", "5", "nullptr"),
                                                      M("way", "1", "forward")>>))
      g4 == process_relation([g3 EXCEPT !.r[1].tags = <<[key |-> "type", value |-> "route"]>>],
                             E("relation", 5, <<>>, <<M("way", "5", "nullptr")>>))
  IN  relation_ref_functor(g4)

\* the diff files a project may have: per type the entries by id, and the hidden ways
Diffs ==
  LET N(state, tags) == [state |-> state, tags |-> tags, nds |-> <<>>, members |-> <<>>]
      W(state, tags, nds) == [state |-> state, tags |-> tags, nds |-> nds, members |-> <<>>]
      R(state, tags, members) == [state |-> state, tags |-> tags, nds |-> <<>>, members |-> members]
      M(tp, ref, role) == [tp |-> tp, ref |-> ref, role |-> role]
      testtag == <<[key |-> "testtag", value |-> "x"]>>
      path == <<[key |-> "highway", value |-> "path"]>>
      route == <<[key |-> "type", value |-> "route"]>>
  IN  [n : {a @@ b : a \in {<<>>, (-1) :> N("new", <<>>)},
                     b \in {<<>>, 1 :> N("changed", testtag), 1 :> N("changed", <<>>),
                            1 :> N("deleted", <<>>), 7 :> N("deleted", <<>>)}},
       w : {<<>>, 1 :> W("deleted", <<>>, <<>>), 1 :> W("changed", path, <<"1", "-1", "5">>),
            1 :> W("changed", testtag, <<"1", "5">>),
            (-1) :> W("new", testtag, <<"5", "-1">>)},
       r : {<<>>, 1 :> R("deleted", <<>>, <<>>),
            1 :> R("changed", route, <<M("node", "-1", "stop"), M("way", "1", "backward")>>),
            (-1) :> R("new", testtag, <<M("relation", "1", "nullptr"), M("way", "-1", "forward")>>)},
       hidden : {{}, {1}}]

\* diff_save writing no entry for a deleted object
diff_save_no_deleted(G, hidden) ==
  LET state(id, flags) == IF id < 0 THEN "new" ELSE "changed"
      pending(map) == {id \in DOMAIN map : map[id].flags /= {} /\ OSM_FLAG_DELETED \notin map[id].flags}
      xml(m) == [tp |-> CASE BaseType(m.type) = "NODE" -> "node" [] BaseType(m.type) = "WAY" -> "way"
                          [] OTHER -> "relation",
                 ref |-> ToString(m.id), role |-> m.role]
  IN  [n |-> [id \in pending(G.n) |->
                [state |-> state(id, G.n[id].flags), tags |-> G.n[id].tags,
                 nds |-> <<>>, members |-> <<>>]],
       w |-> [id \in pending(G.w) |->
                [state |-> state(id, G.w[id].flags), tags |-> G.w[id].tags,
                 nds |-> [i \in DOMAIN G.w[id].chain |-> ToString(G.w[id].chain[i])],
                 members |-> <<>>]],
       r |-> [id \in pending(G.r) |->
                [state |-> state(id, G.r[id].flags), tags |-> G.r[id].tags, nds |-> <<>>,
                 members |-> [i \in DOMAIN G.r[id].members |-> xml(G.r[id].members[i])]]],
       hidden |-> hidden]

\* diff_save: the entries of the Added, Changed and Deleted objects of each type with
\* their current tags, node references and members, and the hidden ways
diff_save(G, hidden) ==
  LET state(id, flags) == IF OSM_FLAG_DELETED \in flags THEN "deleted"
                          ELSE IF id < 0 THEN "new" ELSE "changed"
      pending(map) == {id \in DOMAIN map : map[id].flags /= {}}
      kept(flags, s) == IF OSM_FLAG_DELETED \in flags THEN <<>> ELSE s
      xml(m) == [tp |-> CASE BaseType(m.type) = "NODE" -> "node" [] BaseType(m.type) = "WAY" -> "way"
                          [] OTHER -> "relation",
                 ref |-> ToString(m.id), role |-> m.role]
  IN  [n |-> [id \in pending(G.n) |->
                [state |-> state(id, G.n[id].flags), tags |-> kept(G.n[id].flags, G.n[id].tags),
                 nds |-> <<>>, members |-> <<>>]],
       w |-> [id \in pending(G.w) |->
                [state |-> state(id, G.w[id].flags), tags |-> kept(G.w[id].flags, G.w[id].tags),
                 nds |-> kept(G.w[id].flags, [i \in DOMAIN G.w[id].chain |-> ToString(G.w[id].chain[i])]),
                 members |-> <<>>]],
       r |-> [id \in pending(G.r) |->
                [state |-> state(id, G.r[id].flags), tags |-> kept(G.r[id].flags, G.r[id].tags),
                 nds |-> <<>>,
                 members |-> kept(G.r[id].flags,
                                  [i \in DOMAIN G.r[id].members |-> xml(G.r[id].members[i])])]],
       hidden |-> hidden]

\* the objects of one type after the entries of a diff are replayed: an Added object is
\* created under its negative id, a Changed one gets the content of its entry and the
\* Dirty flag when that differs from what it has, a Deleted one the Deleted flag; the
\* entry of an id that is not in the map is skipped
diff_restore_objects(map, entries, content) ==
  [id \in DOMAIN map \cup {i \in DOMAIN entries : entries[i].state = "new"} |->
     IF id \notin DOMAIN map THEN content[id]
     ELSE IF id \notin DOMAIN entries THEN map[id]
     ELSE IF entries[id].state = "deleted" THEN [map[id] EXCEPT !.flags = @ \cup {OSM_FLAG_DELETED}]
     ELSE IF content[id] = map[id] THEN map[id]
     ELSE [content[id] EXCEPT !.flags = mark_dirty(@)]]

\* diff_restore_file: the nodes, then the ways, whose nd references are read by
\* parse_way_nd, then the relations, whose members are read by parse_relation_member
diff_restore(G, d) ==
  LET of(map, id, fresh) == IF id \in DOMAIN map THEN map[id] ELSE fresh
      n1 == diff_restore_objects(G.n, d.n,
              [id \in DOMAIN d.n |-> [of(G.n, id, new_node) EXCEPT !.tags = d.n[id].tags]])
      chain(id) == SelectSeq([i \in DOMAIN d.w[id].nds |-> strtoll(d.w[id].nds[i]).value],
                             LAMBDA x : x \in DOMAIN n1)
      w1 == diff_restore_objects(G.w, d.w,
              [id \in DOMAIN d.w |-> [of(G.w, id, new_way) EXCEPT !.tags = d.w[id].tags,
                                                                  !.chain = chain(id)]])
      n2 == [id \in DOMAIN n1 |-> [n1[id] EXCEPT !.ways = ChainOccurrences(w1, DOMAIN w1, id)]]
      rmap == [id \in DOMAIN G.r \cup {i \in DOMAIN d.r : d.r[i].state = "new"} |-> new_relation]
      read(id) == SelectSeq([i \in DOMAIN d.r[id].members |->
                               parse_relation_member(Graph(n2, w1, rmap), d.r[id].members[i].tp,
                                                     d.r[id].members[i].ref, d.r[id].members[i].role)],
                            LAMBDA p : p.ok)
      r1 == diff_restore_objects(G.r, d.r,
              [id \in DOMAIN d.r |-> [of(G.r, id, new_relation) EXCEPT
                                        !.tags = d.r[id].tags,
                                        !.members = [i \in DOMAIN read(id) |-> read(id)[i].member]]])
  IN  Graph(n2, w1, r1)

\* the project is opened: the file is parsed, and a diff file may be there
InitDiff ==
  /\ nodes = BaseGraph.n /\ ways = BaseGraph.w /\ relations = BaseGraph.r
  /\ original = NoOriginals
  /\ assigned = {}
  /\ aborted = FALSE
  /\ \E d \in Diffs :
       last = [op |-> "parse", file |-> d, hidden |-> {}, flags |-> {}, first |-> {},
               before |-> BaseGraph, saved |-> FALSE]
  /\ steps = 1

\* diff_restore_file(project, osm) on the graph parse has returned
DiffRestoreFile ==
  /\ last.op = "parse"
  /\ nodes' = diff_restore(Cur, last.file).n
  /\ ways' = diff_restore(Cur, last.file).w
  /\ relations' = diff_restore(Cur, last.file).r
  /\ last' = [last EXCEPT !.op = "diff_restore", !.hidden = last.file.hidden,
                          !.flags = {"DIFF_RESTORED"} \cup (IF last.file.hidden /= {}
                                                            THEN {"DIFF_HAS_HIDDEN"} ELSE {})]
  /\ UNCHANGED <<original, assigned, aborted, steps>>

\* diff_save(project, osm): the diff file is written from the graph
DiffSave ==
  /\ last.op = "diff_restore" /\ ~last.saved
  /\ last' = [last EXCEPT !.op = "diff_save", !.file = diff_save(Cur, last.hidden),
                          !.first = last.flags, !.before = Cur, !.saved = TRUE]
  /\ UNCHANGED <<nodes, ways, relations, original, assigned, aborted, steps>>

\* delete osm; osm = osm_t::parse(project.path, project.osm, icons)
ProjectParse ==
  /\ last.op = "diff_save"
  /\ nodes' = BaseGraph.n /\ ways' = BaseGraph.w /\ relations' = BaseGraph.r
  /\ last' = [last EXCEPT !.op = "parse", !.hidden = {}, !.flags = {}]
  /\ UNCHANGED <<original, assigned, aborted, steps>>

SpecDiff == InitDiff /\ [][DiffRestoreFile \/ DiffSave \/ ProjectParse]_vars

(***************************************************************************)
(* Properties                                                              *)
(***************************************************************************)
MutatingOps == {"attach", "node_delete", "way_delete", "mergeNodes", "mergeWays", "split"}

\* the number of ways whose chain contains the node
WaysContaining(n) == Cardinality({w \in DOMAIN ways : n \in Range(ways[w].chain)})

\* C1 as stated: after a mutating operation the ways count of every node is the number
\* of distinct ways whose node chain contains the node
C1_AsStated ==
  last.op \in MutatingOps => \A n \in DOMAIN nodes : nodes[n].ways = WaysContaining(n)

\* C1: after a mutating operation the ways count of every node that is not flagged
\* Deleted is the number of positions the node takes in the node chains of all ways
C1_WaysCountsOccurrences ==
  last.op \in MutatingOps =>
    \A n \in LiveNodes : nodes[n].ways = ChainOccurrences(ways, DOMAIN ways, n)

\* C1 witness: a mutating operation left a node that a way contains twice, and a node
\* flagged Deleted
C1_Witness ==
  /\ last.op \in MutatingOps
  /\ \E n \in LiveNodes, w \in DOMAIN ways : Occurrences(ways[w].chain, n) = 2
  /\ \E n \in DOMAIN nodes : isDeleted(nodes[n])

\* the object a real reference points to is in its map and not flagged Deleted
RefAlive(type, id) ==
  CASE type = "NODE" -> id \in LiveNodes
    [] type = "WAY" -> id \in LiveWays
    [] type = "RELATION" -> id \in LiveRelations
    [] OTHER -> TRUE

\* C2 as stated: no way of the map has a freed or Deleted node in its chain, and no
\* relation member is a real reference to a freed or Deleted object
C2_AsStated ==
  /\ \A w \in DOMAIN ways : \A i \in DOMAIN ways[w].chain : ways[w].chain[i] \in LiveNodes
  /\ \A r \in DOMAIN relations : \A i \in DOMAIN relations[r].members :
       RefAlive(relations[r].members[i].type, relations[r].members[i].id)

\* C3 as stated: merging a new node and an old node keeps the old node, whichever
\* argument it is and whatever the relations, ways and versions of the two are
C3_AsStated ==
  (last.op = "mergeNodes" /\ last.a.isNew /= last.b.isNew) => ~isNew(last.keep)

\* the object the rules of the persistence check keep when the first rule on which the
\* two objects differ decides
FirstRuleKeeps(a, b) ==
  IF a.isNew /= b.isNew THEN (IF a.isNew THEN b.id ELSE a.id)
  ELSE IF a.rels /= b.rels THEN (IF a.rels > b.rels THEN a.id ELSE b.id)
  ELSE IF a.size /= b.size THEN (IF a.size > b.size THEN a.id ELSE b.id)
  ELSE IF a.version /= b.version THEN (IF a.version > b.version THEN a.id ELSE b.id)
  ELSE IF b.id > 0 /\ b.id < a.id THEN b.id
  ELSE a.id

\* C4 as stated: the object a merge keeps is the one the first rule that tells the two
\* objects apart prefers; a later rule never overrides it
C4_AsStated ==
  last.op \in {"mergeNodes", "mergeWays"} => last.keep = FirstRuleKeeps(last.a, last.b)

\* C5 as stated: after the split of an open way neither the way nor a newly attached
\* way has fewer than 2 nodes, and a cut that leaves a side with fewer than 2 nodes
\* attaches no new way
C5_AsStated ==
  (last.op = "split" /\ ~last.closed) =>
    /\ Len(ways[last.way].chain) >= 2
    /\ last.new /= NoWay => Len(ways[last.new].chain) >= 2
    /\ (LET c == split_chains([i \in 1..last.len |-> i], last.cut, last.cut_at_node)
        IN (Len(c.old) < 2 \/ Len(c.new) < 2) => last.new = NoWay)

\* C6 as stated: after node_delete in ShortWays mode every way that contained the node
\* and is left with fewer than 2 nodes is deleted: freed if new, flagged Deleted if not
C6_AsStated ==
  (last.op = "node_delete" /\ last.flags = NodeDeleteShortWays) =>
    \A w \in last.containing :
      (w \in DOMAIN ways /\ Len(ways[w].chain) < 2) => (~isNew(w) /\ isDeleted(ways[w]))

\* the member list without the members referencing obj, two members that the removal
\* made adjacent being collapsed into one when they are identical
RECURSIVE RemoveCollapsing(_, _, _, _, _)
RemoveCollapsing(members, i, obj, out, seam) ==
  IF i > Len(members) THEN out
  ELSE IF object_eq(members[i], obj) THEN RemoveCollapsing(members, i + 1, obj, out, TRUE)
  ELSE IF seam /\ out /= <<>> /\ member_eq(out[Len(out)], members[i])
       THEN RemoveCollapsing(members, i + 1, obj, out, FALSE)
       ELSE RemoveCollapsing(members, i + 1, obj, Append(out, members[i]), FALSE)

\* C7 as stated: after remove_from_relations no member references the object and the
\* identical members the removal made adjacent are collapsed into one
C7_AsStated ==
  last.op = "remove_from_relations" =>
    \A r \in DOMAIN relations :
      relations[r].members = RemoveCollapsing(last.before[r], 1, last.obj, <<>>, FALSE)

\* C7: after remove_from_relations no member references the object, and all the other
\* members are kept in their order, identical neighbours included
C7_RemovesEveryReferenceOnly ==
  last.op = "remove_from_relations" =>
    \A r \in DOMAIN relations :
      /\ \A i \in DOMAIN relations[r].members : ~object_eq(relations[r].members[i], last.obj)
      /\ relations[r].members = SelectSeq(last.before[r], LAMBDA m : ~object_eq(m, last.obj))

\* C7 witness: the removal took a member from between two identical members, which
\* are both still there
C7_Witness ==
  /\ last.op = "remove_from_relations"
  /\ \E r \in DOMAIN relations :
       /\ Len(relations[r].members) < Len(last.before[r])
       /\ \E i \in DOMAIN relations[r].members :
            /\ i < Len(relations[r].members)
            /\ member_eq(relations[r].members[i], relations[r].members[i + 1])

\* C8 as stated: node_delete in KeepRefs mode of a node that a way chain contains, and
\* the insertion of an id that is in the map already, never complete
C8_AsStated ==
  /\ ~(last.op = "node_delete" /\ last.flags = NodeDeleteKeepRefs /\ last.containing /= {})
  /\ ~(last.op = "insert" /\ last.present)

\* C9: after node_delete in Default mode no way chain contains the deleted node
C9_DefaultRemovesFromChains ==
  (last.op = "node_delete" /\ last.flags = NodeDeleteDefault) =>
    \A w \in DOMAIN ways : last.node \notin Range(ways[w].chain)

\* C9 witness: node_delete in Default mode deleted a node that a way contained, and
\* the way is still in the map
C9_Witness ==
  /\ last.op = "node_delete" /\ last.flags = NodeDeleteDefault
  /\ \E w \in last.containing : w \in DOMAIN ways /\ ways[w].chain /= <<>>

\* C10: after mergeNodes no way chain and no relation member references the node
\* removed, and every way and relation that referenced it references the node kept
C10_MergeRewires ==
  last.op = "mergeNodes" =>
    /\ \A w \in DOMAIN ways : last.remove \notin Range(ways[w].chain)
    /\ \A r \in DOMAIN relations : \A i \in DOMAIN relations[r].members :
         ~object_eq(relations[r].members[i], Obj("NODE", last.remove))
    /\ \A w \in last.hadWays : w \in DOMAIN ways /\ last.keep \in Range(ways[w].chain)
    /\ \A r \in last.hadRels :
         \E i \in DOMAIN relations[r].members :
           object_eq(relations[r].members[i], Obj("NODE", last.keep))

\* C10 witness: mergeNodes removed a node that a way and a relation referenced
C10_Witness ==
  /\ last.op = "mergeNodes"
  /\ last.hadWays /= {}
  /\ last.hadRels /= {}
  /\ last.remove \notin LiveNodes

\* C11: after node_delete, way_delete or relation_delete of an object, an object with a
\* negative id is gone from its map, and an object with a positive id is still in its
\* map and carries the Deleted flag
C11_DeleteFreesNewFlagsOld ==
  /\ last.op = "node_delete" =>
       IF isNew(last.node) THEN last.node \notin DOMAIN nodes
       ELSE last.node \in DOMAIN nodes /\ OSM_FLAG_DELETED \in nodes[last.node].flags
  /\ last.op = "way_delete" =>
       IF isNew(last.way) THEN last.way \notin DOMAIN ways
       ELSE last.way \in DOMAIN ways /\ OSM_FLAG_DELETED \in ways[last.way].flags
  /\ last.op = "relation_delete" =>
       IF isNew(last.relation) THEN last.relation \notin DOMAIN relations
       ELSE last.relation \in DOMAIN relations
            /\ OSM_FLAG_DELETED \in relations[last.relation].flags

\* C11 witness: a relation with a negative id was deleted and is gone while a relation
\* with a positive id is in the map
C11_Witness ==
  /\ last.op = "relation_delete" /\ isNew(last.relation)
  /\ last.relation \notin DOMAIN relations
  /\ \E r \in DOMAIN relations : ~isNew(r)

\* the node is in the chain of no way but the given one, has no tag that is not
\* discardable and is a member of no relation
OnlyOfWay(n, way) ==
  /\ \A w \in DOMAIN ways \ {way} : n \notin Range(ways[w].chain)
  /\ ~hasNonDiscardableTags(nodes[n].tags)
  /\ ~\E r \in DOMAIN relations : \E i \in DOMAIN relations[r].members :
        BaseType(relations[r].members[i].type) = "NODE" /\ relations[r].members[i].id = n

\* C12: way_delete deletes a node of the chain of the way exactly when the node is in
\* no other way, has no tag that is not discardable and is a member of no relation;
\* every other node of the chain is neither freed nor flagged Deleted
C12_DeletesOrphansOnly ==
  [][last'.op = "way_delete" =>
       \A n \in Range(ways[last'.way].chain) :
         (n \notin DOMAIN nodes' \/ isDeleted(nodes'[n])) <=> OnlyOfWay(n, last'.way)]_vars

\* C12 witness: the first operation deleted way 1; node 2 of its chain is flagged
\* Deleted and the tagged node 3 is left with no way and not deleted
C12_Witness ==
  /\ last.op = "way_delete" /\ last.way = 1 /\ steps = MaxOps - 1
  /\ isDeleted(nodes[2])
  /\ nodes[3].ways = 0 /\ ~isDeleted(nodes[3])

\* the map of the objects of a type
MapOf(type, n, w, r) == CASE type = "NODE" -> n [] type = "WAY" -> w [] type = "RELATION" -> r

\* C13 as stated: attach never assigns an id that it assigned earlier in the session to
\* an object of the same type, objects deleted and freed since included
C13_AsStated == last.op = "attach" => ~last.reused

\* C13: attach never assigns an id that an object in the map of that type holds, so
\* it replaces no object: the map keeps every object it held, and an id assigned earlier
\* in the session is assigned again only when no object of the map holds it any more
C13_UniqueAmongLive ==
  [][last'.op = "attach" =>
       /\ last'.id \notin DOMAIN MapOf(last'.type, nodes, ways, relations)
       /\ \A i \in DOMAIN MapOf(last'.type, nodes, ways, relations) :
            /\ i \in DOMAIN MapOf(last'.type, nodes', ways', relations')
            /\ MapOf(last'.type, nodes', ways', relations')[i]
                 = MapOf(last'.type, nodes, ways, relations)[i]]_vars

\* C13 witness: attach assigned an id again that it had assigned before, and the
\* object holding it is the new one
C13_Witness ==
  /\ last.op = "attach" /\ last.reused
  /\ MapOf(last.type, nodes, ways, relations)[last.id].version = 0
  /\ OSM_FLAG_DIRTY \in MapOf(last.type, nodes, ways, relations)[last.id].flags

\* the lowest id of a map that is not empty
LowestId(map) == CHOOSE i \in DOMAIN map : \A j \in DOMAIN map : i <= j

\* C14: attach assigns one less than the lowest id of the map when that id is
\* negative and -1 when the map is empty or holds no negative id; the id is negative
\* and no object of the map held it
C14_AttachBelowLowest ==
  [][last'.op = "attach" =>
       LET map == MapOf(last'.type, nodes, ways, relations)
       IN /\ last'.id = IF map /= <<>> /\ LowestId(map) < 0 THEN LowestId(map) - 1 ELSE -1
          /\ last'.id < 0
          /\ last'.id \notin DOMAIN map]_vars

\* C14 witness: attach gave -1 to a node while the map held positive ids only, and the
\* way attached before is in its map under -1 as well
C14_Witness ==
  /\ last.op = "attach" /\ last.type = "NODE" /\ last.id = -1
  /\ \E n \in DOMAIN nodes : n > 0
  /\ -1 \in DOMAIN ways

\* the objects of the graph with a negative id
NewObjects ==
  {nodes[n] : n \in {i \in DOMAIN nodes : isNew(i)}}
    \cup {ways[w] : w \in {i \in DOMAIN ways : isNew(i)}}
    \cup {relations[r] : r \in {i \in DOMAIN relations : isNew(i)}}

\* C15: the object attach returns has the Dirty flag as its only flag, and every
\* object with a negative id in the graph has the Dirty flag after every operation
C15_NewObjectsDirty ==
  /\ last.op = "attach" =>
       MapOf(last.type, nodes, ways, relations)[last.id].flags = {OSM_FLAG_DIRTY}
  /\ \A o \in NewObjects : OSM_FLAG_DIRTY \in o.flags

\* C15 witness: updateTags changed the tags of an object with a negative id, and the
\* object is in the graph with its new tags
C15_Witness ==
  /\ last.op = "updateTags" /\ isNew(last.obj.id)
  /\ MapOf(last.obj.type, nodes, ways, relations)[last.obj.id].tags /= last.before.tags
  /\ OSM_FLAG_DIRTY \in MapOf(last.obj.type, nodes, ways, relations)[last.obj.id].flags

\* the tags the loaded file gave an object
LoadedTags(type, id) ==
  CASE type = "NODE" /\ id = 3 -> <<[key |-> "name", value |-> "a"]>>
    [] type = "WAY" /\ id = 1 -> <<[key |-> "created_by", value |-> "x"],
                                   [key |-> "highway", value |-> "path"]>>
    [] type = "RELATION" /\ id = 1 -> <<[key |-> "type", value |-> "route"]>>
    [] OTHER -> <<>>

\* C16: after any sequence of updateTags calls an object with a positive id has the
\* Dirty flag exactly when its tags, the discardable ones left aside, are not the tags
\* it was loaded with; tags changed and changed back leave the object without the flag
C16_DirtyIffChanged ==
  \A o \in {x \in Objects : ~isNew(x.id)} :
    (OSM_FLAG_DIRTY \in object_of(Cur, o).flags)
      <=> (real_tags(object_of(Cur, o).tags) /= real_tags(LoadedTags(o.type, o.id)))

\* C16 witness: the object was Dirty before the last updateTags call, which gave it
\* the tags it was loaded with, and it is not Dirty now
C16_Witness ==
  /\ last.op = "updateTags" /\ ~isNew(last.obj.id)
  /\ OSM_FLAG_DIRTY \in last.before.flags
  /\ real_tags(last.ntags) = real_tags(LoadedTags(last.obj.type, last.obj.id))
  /\ last.ntags /= <<>>
  /\ object_of(Cur, last.obj).flags = {}

\* C17 as stated: after a.merge(b) the list a holds its tags of before and each tag of
\* b that is not discardable and was not in a with the same key and value, and no
\* discardable tag of b has come into a, an empty a included
C17_AsStated ==
  last.op = "tag_merge" =>
    /\ Range(last.result) =
         Range(last.a) \cup {t \in Range(last.b) : ~is_discardable(t) /\ t \notin Range(last.a)}
    /\ \A t \in Range(last.result) : is_discardable(t) => t \in Range(last.a)

\* the number of times a pair is among the tags that are not discardable
PairCount(tags, t) == Cardinality({i \in DOMAIN tags : tags[i] = t /\ ~is_discardable(t)})

\* C18: a tag list compares equal to a tag map exactly when both hold the same key and
\* value pairs, the discardable tags of both left aside; a list of created_by=x alone
\* compares equal to the empty map
C18_EqualIffSameRealTags ==
  last.op = "tag_compare" =>
    (last.equal <=> \A t \in Range(last.a) \cup Range(last.b) :
                      PairCount(last.a, t) = PairCount(last.b, t))

\* C18 witness: the list of created_by=x alone was compared with the empty map and
\* found equal
C18_Witness ==
  /\ last.op = "tag_compare"
  /\ last.a = <<[key |-> "created_by", value |-> "x"]>> /\ last.b = <<>>
  /\ last.equal

\* C19: two object references compare equal exactly when they have the same base type
\* and the same id, real references and id references alike
C19_EqualIffBaseTypeAndId ==
  last.op = "object_compare" =>
    (last.equal <=> (BaseType(last.a.type) = BaseType(last.b.type) /\ last.a.id = last.b.id))

\* C19 witness: a real reference and an id reference of the same base type and id were
\* compared and found equal
C19_Witness ==
  /\ last.op = "object_compare" /\ last.equal
  /\ is_real(last.a.type) /\ ~is_real(last.b.type) /\ last.b.type /= "ILLEGAL"

\* the type and the id a member element names
NamedType(tp) == CASE tp = "node" -> "NODE" [] tp = "way" -> "WAY" [] tp = "relation" -> "RELATION"
NamedId(ref) == CASE ref = "1" -> 1 [] ref = "5" -> 5 [] ref = "-1" -> -1

\* C20: a member read from a file whose ref names an id that is not in the graph is
\* stored as an id reference (NodeId, WayId, RelationId) of the base type named, with
\* the id and the role given; an empty role is no role
C20_MissingObjectStaysIdReference ==
  (/\ last.op = "parse_relation_member"
   /\ last.tp \in {"node", "way", "relation"} /\ last.ref \in {"1", "5", "-1"}
   /\ NamedId(last.ref) \notin DOMAIN MapOf(NamedType(last.tp), nodes, ways, relations))
  => /\ last.ok
     /\ ~is_real(last.member.type)
     /\ BaseType(last.member.type) = NamedType(last.tp)
     /\ last.member.id = NamedId(last.ref)
     /\ last.member.role = IF last.role \in {"", "nullptr"} THEN NoRole ELSE last.role

\* C20 witness: a way member with ref 1 and a role was read while way 1 is not in the
\* graph but node 1 is, and it is stored as the id reference WAY_ID 1
C20_Witness ==
  /\ last.op = "parse_relation_member" /\ last.tp = "way" /\ last.ref = "1"
  /\ last.role = "forward"
  /\ 1 \notin DOMAIN ways /\ 1 \in DOMAIN nodes
  /\ last.member = Member("WAY_ID", 1, "forward")

\* C25: split of a closed way attaches no way and returns none; the node at the cut is
\* the first node of the chain afterwards, for every cut position; the chain holds the
\* same set of nodes, and the ways count of each of them changed by as much as the
\* number of its positions in the chain
C25_ClosedSplitRotates ==
  [][(last'.op = "split" /\ last'.closed) =>
       LET before == ways[last'.way].chain
           after == ways'[last'.way].chain
       IN /\ last'.new = NoWay
          /\ DOMAIN ways' = DOMAIN ways
          /\ after[1] = before[last'.cut]
          /\ Range(after) = Range(before)
          /\ \A n \in Range(before) :
               nodes'[n].ways - Occurrences(after, n) = nodes[n].ways - Occurrences(before, n)]_vars

\* C25 witness: the first operation split the closed way 1 in the middle of its chain,
\* and the chain starts with another node than before
C25_Witness ==
  /\ last.op = "split" /\ last.closed /\ last.way = 1 /\ steps = MaxOps - 1
  /\ last.cut > 1 /\ last.cut < last.len
  /\ ways[1].chain[1] /= 1
  /\ last.new = NoWay

\* C26: split of an open way of exactly 3 nodes at its middle node with cut_at_node
\* gives the way 2 nodes and a new way 2 nodes, the node at the cut is in both chains,
\* and its ways count is one more than before
C26_SplitThreeNodesInTheMiddle ==
  [][(/\ last'.op = "split" /\ ~last'.closed /\ last'.len = 3
      /\ last'.cut = 2 /\ last'.cut_at_node) =>
       LET node == ways[last'.way].chain[2]
       IN /\ last'.new /= NoWay /\ last'.new \in DOMAIN ways' \ DOMAIN ways
          /\ Len(ways'[last'.way].chain) = 2 /\ Len(ways'[last'.new].chain) = 2
          /\ node \in Range(ways'[last'.way].chain) /\ node \in Range(ways'[last'.new].chain)
          /\ nodes'[node].ways = nodes[node].ways + 1]_vars

\* C26 witness: a way of 3 nodes was split at its middle node with cut_at_node, and
\* the way and the new way have 2 nodes each
C26_Witness ==
  /\ last.op = "split" /\ ~last.closed /\ last.len = 3 /\ last.cut = 2 /\ last.cut_at_node
  /\ last.new /= NoWay
  /\ Len(ways[last.way].chain) = 2 /\ Len(ways[last.new].chain) = 2
  /\ ways[last.way].chain[2] = ways[last.new].chain[1]

\* the chains made of two chains joined at a common end node, the node once at the joint
Joined(mine, other) ==
  (IF other[1] = mine[1] THEN {Reverse(other) \o Tail(mine)} ELSE {})
    \cup (IF other[Len(other)] = mine[1] THEN {other \o Tail(mine)} ELSE {})
    \cup (IF other[Len(other)] = mine[Len(mine)] THEN {mine \o Tail(Reverse(other))} ELSE {})
    \cup (IF other[1] = mine[Len(mine)] THEN {mine \o Tail(other)} ELSE {})

\* C27: after mergeWays the chain of the way kept is the two chains joined end to end
\* at the end node they share, the node once at the joint, in each of the four
\* orientations, and the other way is not in the graph any more
C27_MergedChainIsJoined ==
  [][last'.op = "mergeWays" =>
       /\ last'.remove \notin DOMAIN ways'
       /\ ways'[last'.keep].chain \in Joined(ways[last'.keep].chain, ways[last'.remove].chain)]_vars

\* C27 witness: two ways of at least 2 nodes were merged; the chain of the way kept has
\* the nodes of both with the common node once, and the other way is gone
C27_Witness ==
  /\ last.op = "mergeWays" /\ last.a.size >= 2 /\ last.b.size >= 2
  /\ last.remove \notin DOMAIN ways
  /\ Len(ways[last.keep].chain) = last.a.size + last.b.size - 1

\* the object checkObjectPersistence keeps when called with the two objects in this order
Survivor(first, second) ==
  IF persistence_nret(first, second) THEN second.id ELSE first.id

\* C29 as stated: two merged objects that differ on one of the five criteria (new or
\* old, relations, ways or nodes, version, id) leave the same survivor when they are
\* passed in the other order
C29_AsStated ==
  (/\ last.op \in {"mergeNodes", "mergeWays"}
   /\ \/ last.a.isNew /= last.b.isNew
      \/ last.a.rels /= last.b.rels
      \/ last.a.size /= last.b.size
      \/ last.a.version /= last.b.version
      \/ last.a.id /= last.b.id)
    => last.keep = Survivor(last.b, last.a)

\* the relations of type route, as reverse_roles reads the type, before the last call
RouteRelations ==
  {r \in DOMAIN relations : get_value(relations[r].tags, "type") /= NoValue
                            /\ strcasecmp_eq(get_value(relations[r].tags, "type"), "route")}

\* the members of all relations whose role is not the one of before the last call
RolesChanged ==
  {p \in {q \in (DOMAIN relations) \X (1..3) : q[2] \in DOMAIN relations[q[1]].members} :
     relations[p[1]].members[p[2]].role /= last.before.members[p[1]][p[2]].role}

\* C23 as stated: after reverse() every member of a relation tagged type=route that
\* references the way has the role backward where it had forward and forward where it
\* had backward, and the role count returned is the number of member roles changed
C23_AsStated ==
  last.op = "reverse" =>
    /\ \A r \in RouteRelations : \A i \in DOMAIN relations[r].members :
         object_eq(relations[r].members[i], Obj("WAY", last.way)) =>
           /\ last.before.members[r][i].role = "forward" => relations[r].members[i].role = "backward"
           /\ last.before.members[r][i].role = "backward" => relations[r].members[i].role = "forward"
    /\ last.roles_flipped = Cardinality(RolesChanged)

\* C24: reverse() on a way with the tag oneway=yes gives the tag the value -1 and
\* reverses the node chain, and a second reverse() of the way gives the tag the value
\* yes again and the way the node chain it had before the first
C24_OnewayRoundTrip ==
  last.op = "reverse" =>
    /\ \A i \in DOMAIN last.before.tags :
         last.before.tags[i] = [key |-> "oneway", value |-> "yes"]
           => ways[last.way].tags[i] = [key |-> "oneway", value |-> "-1"]
    /\ ways[last.way].chain = Reverse(last.before.chain)
    /\ (last.prev.op = "reverse" /\ last.prev.way = last.way) =>
         /\ \A i \in DOMAIN last.prev.before.tags :
              last.prev.before.tags[i] = [key |-> "oneway", value |-> "yes"]
                => ways[last.way].tags[i] = [key |-> "oneway", value |-> "yes"]
         /\ ways[last.way].chain = last.prev.before.chain

\* C24 witness: way 1 had the tag oneway=yes as its second tag, was reversed twice, had
\* oneway=-1 in between and has oneway=yes and the chain 1, 2, 3 now
C24_Witness ==
  /\ last.op = "reverse" /\ last.way = 1
  /\ last.prev.op = "reverse" /\ last.prev.way = 1
  /\ Len(last.prev.before.tags) = 2
  /\ last.prev.before.tags[2] = [key |-> "oneway", value |-> "yes"]
  /\ last.before.tags[2] = [key |-> "oneway", value |-> "-1"]
  /\ ways[1].tags[2] = [key |-> "oneway", value |-> "yes"]
  /\ ways[1].chain = <<1, 2, 3>>

\* the last two calls were reverse() of the same way
ReversedTwice ==
  last.op = "reverse" /\ last.prev.op = "reverse" /\ last.prev.way = last.way

TwiceReversedTag(tag) ==
  IF tag.key = "oneway" /\ (strcasecmp_eq(tag.value, "yes") \/ strcasecmp_eq(tag.value, "true")
                            \/ tag.value = "1")
  THEN [key |-> "oneway", value |-> "yes"]
  ELSE IF tag.key = "sidewalk" /\ (strcasecmp_eq(tag.value, "left") \/ strcasecmp_eq(tag.value, "right"))
  THEN [key |-> "sidewalk", value |-> Lower(tag.value)]
  ELSE tag

\* the position of the first member that is the way, 0 when the way is no member
FirstMemberOf(members, w) ==
  IF \E i \in DOMAIN members : object_eq(members[i], Obj("WAY", w))
  THEN Min({i \in DOMAIN members : object_eq(members[i], Obj("WAY", w))})
  ELSE 0

IdReferences ==
  {m \in UNION {Range(relations[r].members) : r \in DOMAIN relations} :
     m.type \in {"NODE_ID", "WAY_ID", "RELATION_ID"}}

BlockOf(name) ==
  CASE name = "bounds" -> blocks.BLOCK_BOUNDS
    [] name = "node" -> blocks.BLOCK_NODES
    [] name = "way" -> blocks.BLOCK_WAYS
    [] name = "relation" -> blocks.BLOCK_RELATIONS
    [] OTHER -> blocks.BLOCK_OSM

\* C22: while a file is parsed the block never goes back: an element is read into the
\* graph only when its block is the current one or a later one, which is then the
\* current block (any other element ends the parse in a failed assertion), and the
\* elements of a graph returned to the caller were read in the order bounds, nodes,
\* ways, relations
C22_BlocksInOrder ==
  [][last.op = "process_osm" =>
       /\ last'.op = "process_osm" =>
            /\ last'.block >= last.block
            /\ last'.block = BlockOf(last'.read[Len(last'.read)].name)
       /\ last'.op = "parse" =>
            \A i, j \in DOMAIN last'.read :
              i < j => BlockOf(last'.read[i].name) <= BlockOf(last'.read[j].name)]_vars

\* C22 witness: a node element came after a way element and the parse has ended in a
\* failed assertion, the graph being the one read so far
C22_Witness ==
  /\ aborted /\ last.op = "abort" /\ last.of = "process_osm"
  /\ last.name = "node" /\ last.block = blocks.BLOCK_WAYS
  /\ DOMAIN ways /= {} /\ DOMAIN nodes /= {}

\* the added, changed and deleted objects of a graph by type and id, with their flags,
\* tags, node chains and members
PendingObjects(G) ==
  [n |-> [id \in {i \in DOMAIN G.n : G.n[i].flags /= {}} |-> G.n[id]],
   w |-> [id \in {i \in DOMAIN G.w : G.w[i].flags /= {}} |-> G.w[id]],
   r |-> [id \in {i \in DOMAIN G.r : G.r[i].flags /= {}} |-> G.r[id]]]

====
